---- MODULE Spec2Model ----
(***************************************************************************)
(* Guitar Scales Explorer: the music-theory core (pitch arithmetic, scale  *)
(* generation, chord harmonization, harmony layers, progression composer   *)
(* and analyzer) as a state machine.                                       *)
(*                                                                         *)
(* Conventions.                                                            *)
(*  - JavaScript null and undefined are the strings "null" and             *)
(*    "undefined" (what String(x) yields); an absent integer field is 0,   *)
(*    an absent array is << >>, an absent interval is NoInterval.          *)
(*  - Arrays are 1-based sequences; index i of the source is i + 1 here.   *)
(*  - Source strings are ASCII here: the degree sign U+00B0 is written     *)
(*    "{deg}" and the flat sign U+266D is written "{flat}".  A plain "b"   *)
(*    stays "b", so "m7b5" and "m7{flat}5" are different strings, as in    *)
(*    the source.                                                          *)
(*  - A numeric template token k is written as the digit string "k";       *)
(*    IsNumber models typeof degree === 'number'.                          *)
(*  - Math.random() draws are nondeterministic choices (\E).               *)
(***************************************************************************)
EXTENDS Integers, Sequences, FiniteSets, TLC

VARIABLES
  currentChords,     \* ChordEngine.currentChords
  currentRoot,       \* ScaleEngine.currentRoot
  currentScaleType,  \* ScaleEngine.currentScaleType
  currentScale,      \* ScaleEngine.currentScale: a reference into scaleObjects (0: null)
  scaleObjects,      \* the Scale objects a reference leads to, by address
  pc,                \* position inside generateProgression, or "idle"
  scale,             \* generateProgression: argument
  length,            \* generateProgression: argument
  complexity,        \* generateProgression: argument
  style,             \* generateProgression: argument
  layers,            \* generateProgression: const layers
  strategy,          \* which strategy the draw of line 648 selected
  template,          \* index of the chosen template in validTemplates' style (0: none)
  heap,              \* the chord objects allocated by the call, by reference
  baseProgression,   \* generateFromTemplate: references of the template's chords
  progression,       \* the working array: references into heap
  forIdx,            \* generateFromTemplate: position of the for-of loop
  phrase,            \* generateAlgorithmic: the phrase counter
  result,            \* the returned array: references into heap
  op,                \* the operation the caller invoked last
  args,              \* its arguments
  ret,               \* its outcome: [threw, value]
  lastHarmonized,    \* history: the scale the caller last harmonized (harmonizeTriads, harmonize)
  keptScale,         \* history: a Scale the caller kept from generateScale, and its arguments
  analysis           \* analyzeProgression: const analysis, a reference into heap (0: none)

vars == <<currentChords, currentRoot, currentScaleType, currentScale, scaleObjects, pc, scale,
          length, complexity, style, layers, strategy, template, heap,
          baseProgression, progression, forIdx, phrase, result, op, args, ret,
          lastHarmonized, keptScale, analysis>>

-----------------------------------------------------------------------------
(* JavaScript values *)

Null == "null"

Undefined == "undefined"

Falsy(x) == x \in {Null, Undefined, ""}

\* a % b of JavaScript: the remainder has the sign of the dividend
JsRem(a, b) == IF a >= 0 THEN a % b ELSE 0 - ((0 - a) % b)

Abs(x) == IF x < 0 THEN 0 - x ELSE x

Min(a, b) == IF a < b THEN a ELSE b

\* Math.ceil(a / b) for a >= 0, b > 0
\* variant: Math.floor where line 870 has Math.ceil
FloorDiv(a, b) == a \div b

CeilDiv(a, b) == (a + b - 1) \div b

-----------------------------------------------------------------------------
(* Strings as character sequences, for includes / toUpperCase / replace *)

Chars ==
  ("major" :> <<"m", "a", "j", "o", "r">>) @@
  ("minor" :> <<"m", "i", "n", "o", "r">>) @@
  ("diminished" :> <<"d", "i", "m", "i", "n", "i", "s", "h", "e", "d">>) @@
  ("augmented" :> <<"a", "u", "g", "m", "e", "n", "t", "e", "d">>) @@
  ("unknown" :> <<"u", "n", "k", "n", "o", "w", "n">>) @@
  ("major7" :> <<"m", "a", "j", "o", "r", "7">>) @@
  ("minor7" :> <<"m", "i", "n", "o", "r", "7">>) @@
  ("dominant7" :> <<"d", "o", "m", "i", "n", "a", "n", "t", "7">>) @@
  ("halfDiminished7" :> <<"h", "a", "l", "f", "D", "i", "m", "i", "n", "i", "s", "h", "e", "d", "7">>) @@
  ("diminished7" :> <<"d", "i", "m", "i", "n", "i", "s", "h", "e", "d", "7">>) @@
  ("minorMajor7" :> <<"m", "i", "n", "o", "r", "M", "a", "j", "o", "r", "7">>) @@
  ("augmented7" :> <<"a", "u", "g", "m", "e", "n", "t", "e", "d", "7">>) @@
  ("I" :> <<"I">>) @@
  ("II" :> <<"I", "I">>) @@
  ("III" :> <<"I", "I", "I">>) @@
  ("IV" :> <<"I", "V">>) @@
  ("V" :> <<"V">>) @@
  ("VI" :> <<"V", "I">>) @@
  ("VII" :> <<"V", "I", "I">>) @@
  ("i" :> <<"i">>) @@
  ("ii" :> <<"i", "i">>) @@
  ("iii" :> <<"i", "i", "i">>) @@
  ("iv" :> <<"i", "v">>) @@
  ("v" :> <<"v">>) @@
  ("vi" :> <<"v", "i">>) @@
  ("vii" :> <<"v", "i", "i">>) @@
  ("" :> <<>>) @@
  ("V/ii" :> <<"V", "/", "i", "i">>) @@
  ("V/iii" :> <<"V", "/", "i", "i", "i">>) @@
  ("V/iv" :> <<"V", "/", "i", "v">>) @@
  ("V/v" :> <<"V", "/", "v">>) @@
  ("V/vi" :> <<"V", "/", "v", "i">>) @@
  ("V/vii" :> <<"V", "/", "v", "i", "i">>) @@
  ("vii{deg}/ii" :> <<"v", "i", "i", "{deg}", "/", "i", "i">>) @@
  ("vii{deg}/iii" :> <<"v", "i", "i", "{deg}", "/", "i", "i", "i">>) @@
  ("vii{deg}/iv" :> <<"v", "i", "i", "{deg}", "/", "i", "v">>) @@
  ("vii{deg}/v" :> <<"v", "i", "i", "{deg}", "/", "v">>) @@
  ("vii{deg}/vi" :> <<"v", "i", "i", "{deg}", "/", "v", "i">>) @@
  ("vii{deg}/vii" :> <<"v", "i", "i", "{deg}", "/", "v", "i", "i">>) @@
  ("bIII" :> <<"b", "I", "I", "I">>) @@
  ("bVI" :> <<"b", "V", "I">>) @@
  ("bVII" :> <<"b", "V", "I", "I">>) @@
  ("ii{deg}" :> <<"i", "i", "{deg}">>) @@
  ("bII" :> <<"b", "I", "I">>) @@
  ("V/bVI" :> <<"V", "/", "b", "V", "I">>) @@
  ("V/bIII" :> <<"V", "/", "b", "I", "I", "I">>) @@
  ("V/I" :> <<"V", "/", "I">>) @@
  ("V/IV" :> <<"V", "/", "I", "V">>) @@
  ("vii{deg}/V" :> <<"v", "i", "i", "{deg}", "/", "V">>)

\* String.prototype.includes on character sequences
Includes(hay, needle) ==
  \E k \in 0..(Len(hay) - Len(needle)) :
    \A j \in 1..Len(needle) : hay[k + j] = needle[j]

UpperChar(c) ==
  CASE c = "i" -> "I"
    [] c = "v" -> "V"
    [] c = "b" -> "B"
    [] OTHER -> c

\* String.prototype.toUpperCase
ToUpperCase(cs) == [k \in 1..Len(cs) |-> UpperChar(cs[k])]

\* replace(/[^...]/g, ''): keep the characters of the class
RECURSIVE KeepOnly(_, _)
KeepOnly(cs, class) ==
  IF cs = << >> THEN << >>
  ELSE (IF Head(cs) \in class THEN <<Head(cs)>> ELSE << >>) \o KeepOnly(Tail(cs), class)

\* String.prototype.startsWith
StartsWith(cs, prefix) ==
  Len(cs) >= Len(prefix) /\ \A j \in 1..Len(prefix) : cs[j] = prefix[j]

\* String.prototype.substring(n)
Substring(cs, n) == [k \in 1..(Len(cs) - Min(n, Len(cs))) |-> cs[k + n]]

\* the string spelled by a character sequence ("" when the table has none)
CharsOf(s) == IF s \in DOMAIN Chars THEN Chars[s] ELSE << >>

-----------------------------------------------------------------------------
(* data/constants.js *)

NOTES == <<"C", "C#", "D", "D#", "E", "F", "F#", "G", "G#", "A", "A#", "B">>

ALTERNATE_NAMES ==
  ("C#" :> "Db") @@ ("D#" :> "Eb") @@ ("F#" :> "Gb") @@ ("G#" :> "Ab") @@ ("A#" :> "Bb")

TUNINGS_standard == <<"E", "A", "D", "G", "B", "E">>

TUNINGS_halfStepDown == <<"D#", "G#", "C#", "F#", "A#", "D#">>

TUNINGS_openD == <<"D", "A", "D", "F#", "A", "D">>

\* Array.prototype.indexOf: 0-based position of the first match, -1 if none
IndexOf(seq, x) ==
  IF \E k \in 1..Len(seq) : seq[k] = x
  THEN (CHOOSE k \in 1..Len(seq) : seq[k] = x /\ \A j \in 1..(k - 1) : seq[j] # x) - 1
  ELSE -1

\* arr[i] of JavaScript on an array of strings
ElemOrUndefined(seq, i) == IF i + 1 \in 1..Len(seq) THEN seq[i + 1] ELSE Undefined

-----------------------------------------------------------------------------
(* core/MusicTheory.js *)

getNoteIndex(note) ==
  LET index == IndexOf(NOTES, note) IN
  IF index # -1 THEN index
  ELSE IF \E key \in DOMAIN ALTERNATE_NAMES : ALTERNATE_NAMES[key] = note
       THEN IndexOf(NOTES, CHOOSE key \in DOMAIN ALTERNATE_NAMES : ALTERNATE_NAMES[key] = note)
       ELSE -1

transposeNote(note, semitones) ==
  LET index == getNoteIndex(note) IN
  IF index = -1 THEN Null
  ELSE ElemOrUndefined(NOTES, JsRem(index + semitones + 12, 12))

NoInterval == -1

getInterval(note1, note2) ==
  LET index1 == getNoteIndex(note1)
      index2 == getNoteIndex(note2) IN
  IF index1 = -1 \/ index2 = -1 THEN NoInterval
  ELSE JsRem(index2 - index1 + 12, 12)

normalizeNote(note, preferFlats) ==
  LET index == getNoteIndex(note) IN
  IF index = -1 THEN note
  ELSE LET sharpNote == NOTES[index + 1] IN
       IF ~preferFlats \/ sharpNote \notin DOMAIN ALTERNATE_NAMES
       THEN sharpNote
       ELSE ALTERNATE_NAMES[sharpNote]

\* shouldUseFlats with 'F' missing from flatKeys
shouldUseFlatsWithoutF(root) == root \in {"Bb", "Eb", "Ab", "Db", "Gb"}

shouldUseFlats(root) == root \in {"F", "Bb", "Eb", "Ab", "Db", "Gb"}

getProperNoteName(note, root) == normalizeNote(note, shouldUseFlats(root))

\* getNoteAtFret that counts the open string as fret 1
getNoteAtFretFromOne(openString, fret) == transposeNote(openString, fret - 1)

getNoteAtFret(openString, fret) == transposeNote(openString, fret)

-----------------------------------------------------------------------------
(* data/scales.js *)

SCALE_PATTERNS ==
  [
     major |-> [name |-> "Major Scale (Ionian)", intervals |-> <<0, 2, 4, 5, 7, 9, 11>>,
       degrees |-> <<"1", "2", "3", "4", "5", "6", "7">>, formula |-> "W-W-H-W-W-W-H", category |-> "major"],
     dorian |-> [name |-> "Dorian", intervals |-> <<0, 2, 3, 5, 7, 9, 10>>,
       degrees |-> <<"1", "2", "b3", "4", "5", "6", "b7">>, formula |-> "W-H-W-W-W-H-W", category |-> "modes"],
     phrygian |-> [name |-> "Phrygian", intervals |-> <<0, 1, 3, 5, 7, 8, 10>>,
       degrees |-> <<"1", "b2", "b3", "4", "5", "b6", "b7">>, formula |-> "H-W-W-W-H-W-W", category |-> "modes"],
     lydian |-> [name |-> "Lydian", intervals |-> <<0, 2, 4, 6, 7, 9, 11>>,
       degrees |-> <<"1", "2", "3", "#4", "5", "6", "7">>, formula |-> "W-W-W-H-W-W-H", category |-> "modes"],
     mixolydian |-> [name |-> "Mixolydian", intervals |-> <<0, 2, 4, 5, 7, 9, 10>>,
       degrees |-> <<"1", "2", "3", "4", "5", "6", "b7">>, formula |-> "W-W-H-W-W-H-W", category |-> "modes"],
     aeolian |-> [name |-> "Aeolian (Natural Minor)", intervals |-> <<0, 2, 3, 5, 7, 8, 10>>,
       degrees |-> <<"1", "2", "b3", "4", "5", "b6", "b7">>, formula |-> "W-H-W-W-H-W-W", category |-> "minor"],
     locrian |-> [name |-> "Locrian", intervals |-> <<0, 1, 3, 5, 6, 8, 10>>,
       degrees |-> <<"1", "b2", "b3", "4", "b5", "b6", "b7">>, formula |-> "H-W-W-H-W-W-W", category |-> "modes"],
     naturalMinor |-> [name |-> "Natural Minor", intervals |-> <<0, 2, 3, 5, 7, 8, 10>>,
       degrees |-> <<"1", "2", "b3", "4", "5", "b6", "b7">>, formula |-> "W-H-W-W-H-W-W", category |-> "minor"],
     harmonicMinor |-> [name |-> "Harmonic Minor", intervals |-> <<0, 2, 3, 5, 7, 8, 11>>,
       degrees |-> <<"1", "2", "b3", "4", "5", "b6", "7">>, formula |-> "W-H-W-W-H-WH-H", category |-> "minor"],
     melodicMinor |-> [name |-> "Melodic Minor", intervals |-> <<0, 2, 3, 5, 7, 9, 11>>,
       degrees |-> <<"1", "2", "b3", "4", "5", "6", "7">>, formula |-> "W-H-W-W-W-W-H", category |-> "minor"],
     majorPentatonic |-> [name |-> "Major Pentatonic", intervals |-> <<0, 2, 4, 7, 9>>,
       degrees |-> <<"1", "2", "3", "5", "6">>, formula |-> "W-W-m3-W-m3", category |-> "pentatonic"],
     minorPentatonic |-> [name |-> "Minor Pentatonic", intervals |-> <<0, 3, 5, 7, 10>>,
       degrees |-> <<"1", "b3", "4", "5", "b7">>, formula |-> "m3-W-W-m3-W", category |-> "pentatonic"],
     blues |-> [name |-> "Blues Scale", intervals |-> <<0, 3, 5, 6, 7, 10>>,
       degrees |-> <<"1", "b3", "4", "b5", "5", "b7">>, formula |-> "m3-W-H-H-m3-W", category |-> "blues"],
     harmonicMajor |-> [name |-> "Harmonic Major", intervals |-> <<0, 2, 4, 5, 7, 8, 11>>,
       degrees |-> <<"1", "2", "3", "4", "5", "b6", "7">>, formula |-> "W-W-H-W-H-WH-H", category |-> "exotic"],
     hungarianMinor |-> [name |-> "Hungarian Minor", intervals |-> <<0, 2, 3, 6, 7, 8, 11>>,
       degrees |-> <<"1", "2", "b3", "#4", "5", "b6", "7">>, formula |-> "W-H-WH-H-H-WH-H", category |-> "exotic"],
     doubleHarmonic |-> [name |-> "Double Harmonic (Byzantine)", intervals |-> <<0, 1, 4, 5, 7, 8, 11>>,
       degrees |-> <<"1", "b2", "3", "4", "5", "b6", "7">>, formula |-> "H-WH-H-W-H-WH-H", category |-> "exotic"],
     neapolitanMinor |-> [name |-> "Neapolitan Minor", intervals |-> <<0, 1, 3, 5, 7, 8, 11>>,
       degrees |-> <<"1", "b2", "b3", "4", "5", "b6", "7">>, formula |-> "H-W-W-W-H-WH-H", category |-> "exotic"],
     neapolitanMajor |-> [name |-> "Neapolitan Major", intervals |-> <<0, 1, 3, 5, 7, 9, 11>>,
       degrees |-> <<"1", "b2", "b3", "4", "5", "6", "7">>, formula |-> "H-W-W-W-W-W-H", category |-> "exotic"],
     enigmatic |-> [name |-> "Enigmatic Scale", intervals |-> <<0, 1, 4, 6, 8, 10, 11>>,
       degrees |-> <<"1", "b2", "3", "#4", "#5", "#6", "7">>, formula |-> "H-WH-W-W-W-H-H", category |-> "exotic"],
     persian |-> [name |-> "Persian Scale", intervals |-> <<0, 1, 4, 5, 6, 8, 11>>,
       degrees |-> <<"1", "b2", "3", "4", "b5", "b6", "7">>, formula |-> "H-WH-H-H-W-WH-H", category |-> "exotic"],
     altered |-> [name |-> "Altered Scale (Super Locrian)", intervals |-> <<0, 1, 3, 4, 6, 8, 10>>,
       degrees |-> <<"1", "b2", "b3", "b4", "b5", "b6", "b7">>, formula |-> "H-W-H-W-W-W-W", category |-> "exotic"],
     wholeTone |-> [name |-> "Whole Tone Scale", intervals |-> <<0, 2, 4, 6, 8, 10>>,
       degrees |-> <<"1", "2", "3", "#4", "#5", "b7">>, formula |-> "W-W-W-W-W-W", category |-> "exotic"],
     diminished |-> [name |-> "Diminished Scale (Whole-Half)", intervals |-> <<0, 2, 3, 5, 6, 8, 9, 11>>,
       degrees |-> <<"1", "2", "b3", "4", "b5", "#5", "6", "7">>, formula |-> "W-H-W-H-W-H-W-H", category |-> "exotic"],
     halfWholeDiminished |-> [name |-> "Half-Whole Diminished", intervals |-> <<0, 1, 3, 4, 6, 7, 9, 10>>,
       degrees |-> <<"1", "b2", "b3", "3", "#4", "5", "6", "b7">>, formula |-> "H-W-H-W-H-W-H-W", category |-> "exotic"],
     augmented |-> [name |-> "Augmented Scale", intervals |-> <<0, 3, 4, 7, 8, 11>>,
       degrees |-> <<"1", "#2", "3", "#4", "5", "#6">>, formula |-> "m3-H-m3-H-m3-H", category |-> "exotic"],
     prometheus |-> [name |-> "Prometheus Scale", intervals |-> <<0, 2, 4, 6, 9, 10>>,
       degrees |-> <<"1", "2", "3", "#4", "6", "b7">>, formula |-> "W-W-W-m3-H-m3", category |-> "exotic"],
     hirajoshi |-> [name |-> "Hirajoshi Scale", intervals |-> <<0, 2, 3, 7, 8>>,
       degrees |-> <<"1", "2", "b3", "5", "b6">>, formula |-> "W-H-M3-H-M3", category |-> "exotic"],
     inSen |-> [name |-> "In-Sen Scale", intervals |-> <<0, 1, 5, 7, 10>>,
       degrees |-> <<"1", "b2", "4", "5", "b7">>, formula |-> "H-M3-W-m3-W", category |-> "exotic"],
     iwato |-> [name |-> "Iwato Scale", intervals |-> <<0, 1, 5, 6, 10>>,
       degrees |-> <<"1", "b2", "4", "b5", "b7">>, formula |-> "H-M3-H-M3-W", category |-> "exotic"],
     yo |-> [name |-> "Yo Scale", intervals |-> <<0, 2, 5, 7, 9>>,
       degrees |-> <<"1", "2", "4", "5", "6">>, formula |-> "W-m3-W-W-m3", category |-> "exotic"],
     spanish |-> [name |-> "Spanish Scale (Phrygian Dominant)", intervals |-> <<0, 1, 4, 5, 7, 8, 10>>,
       degrees |-> <<"1", "b2", "3", "4", "5", "b6", "b7">>, formula |-> "H-WH-H-W-H-W-W", category |-> "exotic"],
     jewish |-> [name |-> "Jewish Scale (Ahava Rabboh)", intervals |-> <<0, 1, 4, 5, 7, 8, 10>>,
       degrees |-> <<"1", "b2", "3", "4", "5", "b6", "b7">>, formula |-> "H-WH-H-W-H-W-W", category |-> "exotic"],
     arabic |-> [name |-> "Arabic Scale", intervals |-> <<0, 2, 4, 5, 6, 8, 10>>,
       degrees |-> <<"1", "2", "3", "4", "b5", "b6", "b7">>, formula |-> "W-W-H-H-W-W-W", category |-> "exotic"],
     egyptian |-> [name |-> "Egyptian Scale", intervals |-> <<0, 2, 5, 7, 10>>,
       degrees |-> <<"1", "2", "4", "5", "b7">>, formula |-> "W-m3-W-m3-W", category |-> "exotic"]
  ]

ScaleKeys == DOMAIN SCALE_PATTERNS

\* the property names that every object literal inherits from Object.prototype: a
\* lookup obj[key] with one of them yields a function (Object.prototype itself for
\* __proto__), which is truthy, has no own enumerable entries and is no number
ObjectPrototypeKeys ==
  {"constructor", "toString", "toLocaleString", "valueOf", "hasOwnProperty",
   "isPrototypeOf", "propertyIsEnumerable", "__proto__", "__defineGetter__",
   "__defineSetter__", "__lookupGetter__", "__lookupSetter__"}

\* the test !pattern of line 2562 fails: SCALE_PATTERNS[scaleKey] is truthy
HasPattern(scaleKey) == scaleKey \in ScaleKeys \cup ObjectPrototypeKeys

\* pattern.intervals is undefined for an inherited property: .map throws (line 2567)
IntervalsUnreadable(scaleKey) == scaleKey \in ObjectPrototypeKeys \ ScaleKeys

\* the pattern of a catalog key
getScalePattern(scaleKey) == SCALE_PATTERNS[scaleKey]

-----------------------------------------------------------------------------
(* core/ScaleEngine.js *)

\* the scale a caller passes as null
NullScale ==
  [root |-> Null, type |-> Null, name |-> Null, notes |-> << >>, degrees |-> << >>,
   intervals |-> << >>, formula |-> Null, category |-> Null]

IsNullScale(s) == s.type = Null

\* scale.notes is present (an empty list is present)
HasNotes(s) == "notes" \in DOMAIN s

\* the Scale generateScale builds; NullScale where it builds none (the pattern is
\* missing, line 2564, or its intervals cannot be read, line 2567)
generateScaleValue(root, scaleType) ==
  IF ~HasPattern(scaleType) \/ IntervalsUnreadable(scaleType) THEN NullScale
  ELSE LET pattern == getScalePattern(scaleType) IN
       [root |-> root,
        type |-> scaleType,
        name |-> pattern.name,
        notes |-> [k \in 1..Len(pattern.intervals) |->
                     getProperNoteName(transposeNote(root, pattern.intervals[k]), root)],
        degrees |-> pattern.degrees,
        intervals |-> pattern.intervals,
        formula |-> pattern.formula,
        category |-> pattern.category]

\* scaleToUse.notes.findIndex(scaleNote => getNoteIndex(scaleNote) === noteIndex)
findScaleNoteIndex(notes, noteIndex) ==
  IF \E k \in 1..Len(notes) : getNoteIndex(notes[k]) = noteIndex
  THEN (CHOOSE k \in 1..Len(notes) :
          /\ getNoteIndex(notes[k]) = noteIndex
          /\ \A j \in 1..(k - 1) : getNoteIndex(notes[j]) # noteIndex) - 1
  ELSE -1

\* the positions the for loop of line 2628 pushes for one string, frets 0..maxFret
RECURSIVE positionsOnString(_, _, _, _)
positionsOnString(scaleToUse, openString, stringIndex, maxFret) ==
  IF maxFret < 0 THEN << >>
  ELSE LET fret == maxFret
           noteAtFret == getNoteAtFret(openString, fret)
           noteIndex == getNoteIndex(noteAtFret)
           scaleNoteIndex == findScaleNoteIndex(scaleToUse.notes, noteIndex) IN
       positionsOnString(scaleToUse, openString, stringIndex, maxFret - 1)
         \o (IF scaleNoteIndex # -1
             THEN <<[string |-> stringIndex + 1,
                     fret |-> fret,
                     note |-> scaleToUse.notes[scaleNoteIndex + 1],
                     degree |-> ElemOrUndefined(scaleToUse.degrees, scaleNoteIndex),
                     interval |-> scaleToUse.intervals[scaleNoteIndex + 1],
                     isRoot |-> \/ scaleToUse.notes[scaleNoteIndex + 1] = scaleToUse.root
                                \/ getNoteIndex(scaleToUse.notes[scaleNoteIndex + 1])
                                     = getNoteIndex(scaleToUse.root)]>>
             ELSE << >>)

\* tuning.forEach of line 2627 over the first n strings
RECURSIVE positionsOnStrings(_, _, _, _)
positionsOnStrings(scaleToUse, tuning, n, maxFret) ==
  IF n = 0 THEN << >>
  ELSE positionsOnStrings(scaleToUse, tuning, n - 1, maxFret)
         \o positionsOnString(scaleToUse, tuning[n], n - 1, maxFret)

\* the array getFretboardPositions returns for a scale that is not null
getFretboardPositions(scaleToUse, tuning, maxFret) ==
  positionsOnStrings(scaleToUse, tuning, Len(tuning), maxFret)

-----------------------------------------------------------------------------
(* core/ChordEngine.js: chord records *)

\* {}: an object with no own properties
EmptyObject ==
  [root |-> Undefined, notes |-> << >>, quality |-> Undefined, symbol |-> Undefined,
   degree |-> Undefined, scaleDegree |-> 0, type |-> Undefined, resolvesTo |-> Undefined,
   chordExtension |-> Undefined, function |-> Undefined, layer |-> Undefined,
   resolvesToNext |-> 0, expectsResolution |-> Undefined]

\* { ...chord, layer }
WithLayer(chord, layer) == [chord EXCEPT !.layer = layer]

\* arr[i] of JavaScript on an array of chords, spread into a new object
SpreadAt(chords, i) == IF i + 1 \in 1..Len(chords) THEN chords[i + 1] ELSE EmptyObject

\* Array.prototype.filter
RECURSIVE SelectSeqIdx(_, _)
SelectSeqIdx(n, keep) ==
  IF n = 0 THEN << >>
  ELSE SelectSeqIdx(n - 1, keep) \o (IF n \in keep THEN <<n>> ELSE << >>)

-----------------------------------------------------------------------------
(* core/ChordEngine.js: the Chord Harmonizer *)

\* determineTriadQuality without the test of line 112
determineTriadQualityNoAugmented(root, third, fifth) ==
  LET thirdInterval == getInterval(root, third)
      fifthInterval == getInterval(root, fifth) IN
  CASE thirdInterval = 4 /\ fifthInterval = 7 -> "major"
    [] thirdInterval = 3 /\ fifthInterval = 7 -> "minor"
    [] thirdInterval = 3 /\ fifthInterval = 6 -> "diminished"
    [] OTHER -> "unknown"

determineTriadQuality(root, third, fifth) ==
  LET thirdInterval == getInterval(root, third)
      fifthInterval == getInterval(root, fifth) IN
  CASE thirdInterval = 4 /\ fifthInterval = 7 -> "major"
    [] thirdInterval = 3 /\ fifthInterval = 7 -> "minor"
    [] thirdInterval = 3 /\ fifthInterval = 6 -> "diminished"
    [] thirdInterval = 4 /\ fifthInterval = 8 -> "augmented"
    [] OTHER -> "unknown"

\* variant: the half-diminished test left out
determineSeventhQualityNoHalfDiminished(root, third, fifth, seventh) ==
  LET thirdInterval == getInterval(root, third)
      fifthInterval == getInterval(root, fifth)
      seventhInterval == getInterval(root, seventh) IN
  CASE thirdInterval = 4 /\ fifthInterval = 7 /\ seventhInterval = 11 -> "major7"
    [] thirdInterval = 3 /\ fifthInterval = 7 /\ seventhInterval = 10 -> "minor7"
    [] thirdInterval = 4 /\ fifthInterval = 7 /\ seventhInterval = 10 -> "dominant7"
    [] thirdInterval = 3 /\ fifthInterval = 6 /\ seventhInterval = 9 -> "diminished7"
    [] thirdInterval = 3 /\ fifthInterval = 7 /\ seventhInterval = 11 -> "minorMajor7"
    [] thirdInterval = 4 /\ fifthInterval = 8 /\ seventhInterval = 10 -> "augmented7"
    [] OTHER -> "unknown"

determineSeventhQuality(root, third, fifth, seventh) ==
  LET thirdInterval == getInterval(root, third)
      fifthInterval == getInterval(root, fifth)
      seventhInterval == getInterval(root, seventh) IN
  CASE thirdInterval = 4 /\ fifthInterval = 7 /\ seventhInterval = 11 -> "major7"
    [] thirdInterval = 3 /\ fifthInterval = 7 /\ seventhInterval = 10 -> "minor7"
    [] thirdInterval = 4 /\ fifthInterval = 7 /\ seventhInterval = 10 -> "dominant7"
    [] thirdInterval = 3 /\ fifthInterval = 6 /\ seventhInterval = 10 -> "halfDiminished7"
    [] thirdInterval = 3 /\ fifthInterval = 6 /\ seventhInterval = 9 -> "diminished7"
    [] thirdInterval = 3 /\ fifthInterval = 7 /\ seventhInterval = 11 -> "minorMajor7"
    [] thirdInterval = 4 /\ fifthInterval = 8 /\ seventhInterval = 10 -> "augmented7"
    [] OTHER -> "unknown"

qualitySymbols ==
  [major |-> "", minor |-> "m", diminished |-> "dim", augmented |-> "aug",
   major7 |-> "maj7", minor7 |-> "m7", dominant7 |-> "7", diminished7 |-> "dim7",
   halfDiminished7 |-> "m7{flat}5", augmented7 |-> "aug7", minorMajor7 |-> "mMaj7"]

getChordSymbol(root, quality) ==
  root \o (IF quality \in DOMAIN qualitySymbols THEN qualitySymbols[quality] ELSE "")

numerals == <<"I", "II", "III", "IV", "V", "VI", "VII">>

LowerChar(c) ==
  CASE c = "I" -> "i"
    [] c = "V" -> "v"
    [] OTHER -> c

\* String.prototype.toLowerCase
ToLowerCase(cs) == [k \in 1..Len(cs) |-> LowerChar(cs[k])]

\* the string a character sequence spells
StringOf(cs) == CHOOSE s \in DOMAIN Chars : Chars[s] = cs

\* variant: no lower case for minor and diminished
getRomanNumeralUpperCase(degree, quality) ==
  IF degree \in 1..Len(numerals) THEN numerals[degree] ELSE ""

\* variant: the substring test ignores the case of the quality name
getRomanNumeralIgnoringCase(degree, quality) ==
  LET baseNumeral == IF degree \in 1..Len(numerals) THEN numerals[degree] ELSE ""
      name == ToLowerCase(CharsOf(quality)) IN
  IF Includes(name, Chars["minor"])
     \/ Includes([k \in 1..Len(name) |-> IF name[k] = "D" THEN "d" ELSE name[k]],
                 Chars["diminished"])
  THEN StringOf(ToLowerCase(Chars[baseNumeral]))
  ELSE baseNumeral

getRomanNumeral(degree, quality) ==
  LET baseNumeral == IF degree \in 1..Len(numerals) THEN numerals[degree] ELSE "" IN
  IF Includes(CharsOf(quality), Chars["minor"]) \/ Includes(CharsOf(quality), Chars["diminished"])
  THEN StringOf(ToLowerCase(Chars[baseNumeral]))
  ELSE baseNumeral

\* the guard of line 15
InvalidTriadScale(s) == IsNullScale(s) \/ ~HasNotes(s) \/ Len(s.notes) < 3

\* the chords harmonizeTriads builds
harmonizeTriads(s) ==
  IF InvalidTriadScale(s) THEN << >>
  ELSE LET scaleLength == Len(s.notes) IN
       [k \in 1..scaleLength |->
          LET index == k - 1
              root == s.notes[k]
              third == s.notes[((index + 2) % scaleLength) + 1]
              fifth == s.notes[((index + 4) % scaleLength) + 1]
              quality == determineTriadQuality(root, third, fifth) IN
          [EmptyObject EXCEPT
             !.root = root,
             !.notes = <<root, third, fifth>>,
             !.quality = quality,
             !.symbol = getChordSymbol(root, quality),
             !.degree = getRomanNumeral(index + 1, quality),
             !.scaleDegree = index + 1,
             !.type = "triad"]]

\* the guard of line 53
InvalidSeventhScale(s) == IsNullScale(s) \/ ~HasNotes(s) \/ Len(s.notes) < 4

harmonizeSeventhChords(s) ==
  IF InvalidSeventhScale(s) THEN << >>
  ELSE LET scaleLength == Len(s.notes) IN
       [k \in 1..scaleLength |->
          LET index == k - 1
              root == s.notes[k]
              third == s.notes[((index + 2) % scaleLength) + 1]
              fifth == s.notes[((index + 4) % scaleLength) + 1]
              seventh == s.notes[((index + 6) % scaleLength) + 1]
              quality == determineSeventhQuality(root, third, fifth, seventh) IN
          [EmptyObject EXCEPT
             !.root = root,
             !.notes = <<root, third, fifth, seventh>>,
             !.quality = quality,
             !.symbol = getChordSymbol(root, quality),
             !.degree = getRomanNumeral(index + 1, quality),
             !.scaleDegree = index + 1,
             !.type = "seventh"]]

-----------------------------------------------------------------------------
(* core/ChordEngine.js: the Extended Harmony generators *)

\* the guard of line 204 (and of line 383)
\* variant: a guard that reads scale.notes.length without testing scale and scale.notes
InvalidSecondaryScaleLengthOnly(s) == ~IsNullScale(s) /\ HasNotes(s) /\ Len(s.notes) < 7

InvalidSecondaryScale(s) == IsNullScale(s) \/ ~HasNotes(s) \/ Len(s.notes) < 7

secondaryDominantNumerals == <<"V/ii", "V/iii", "V/iv", "V/v", "V/vi", "V/vii">>

\* getSecondaryDominants without the early return of line 214: the tonic has a chord too
getSecondaryDominantsOfEveryNote(s) ==
  IF InvalidSecondaryScale(s) THEN << >>
  ELSE [k \in 1..Len(s.notes) |->
          LET index == k - 1
              targetNote == s.notes[index + 1]
              dominantRoot == transposeNote(targetNote, 7) IN
          [EmptyObject EXCEPT
             !.root = dominantRoot,
             !.notes = <<dominantRoot, transposeNote(dominantRoot, 4),
                         transposeNote(dominantRoot, 7), transposeNote(dominantRoot, 10)>>,
             !.quality = "dominant7",
             !.symbol = getChordSymbol(dominantRoot, "dominant7"),
             !.degree = ElemOrUndefined(secondaryDominantNumerals, index - 1),
             !.scaleDegree = index + 1,
             !.type = "secondary-dominant",
             !.resolvesTo = targetNote]]

getSecondaryDominants(s) ==
  IF InvalidSecondaryScale(s) THEN << >>
  ELSE [k \in 1..(Len(s.notes) - 1) |->
          LET index == k
              targetNote == s.notes[index + 1]
              dominantRoot == transposeNote(targetNote, 7) IN
          [EmptyObject EXCEPT
             !.root = dominantRoot,
             !.notes = <<dominantRoot, transposeNote(dominantRoot, 4),
                         transposeNote(dominantRoot, 7), transposeNote(dominantRoot, 10)>>,
             !.quality = "dominant7",
             !.symbol = getChordSymbol(dominantRoot, "dominant7"),
             !.degree = ElemOrUndefined(secondaryDominantNumerals, index - 1),
             !.scaleDegree = index + 1,
             !.type = "secondary-dominant",
             !.resolvesTo = targetNote]]

\* the guard of line 247 (and of line 348)
InvalidRootScale(s) == IsNullScale(s) \/ Falsy(s.root)

\* one borrowed triad of getModalInterchangeChords / getNeapolitanChords
BorrowedChord(root, third, fifth, quality, shown, degree, scaleDegree, type, fn) ==
  [EmptyObject EXCEPT
     !.root = root,
     !.notes = <<root, transposeNote(root, third), transposeNote(root, fifth)>>,
     !.quality = quality,
     !.symbol = getChordSymbol(root, quality) \o " (" \o shown \o ")",
     !.degree = degree,
     !.scaleDegree = scaleDegree,
     !.type = type,
     !.chordExtension = shown,
     !.function = fn]

getModalInterchangeChords(s) ==
  IF InvalidRootScale(s) THEN << >>
  ELSE LET root == s.root IN
       << BorrowedChord(transposeNote(root, 3), 4, 7, "major", "maj7", "bIII", 3,
                        "modal-interchange", Undefined),
          BorrowedChord(transposeNote(root, 8), 4, 7, "major", "maj7", "bVI", 6,
                        "modal-interchange", Undefined),
          BorrowedChord(transposeNote(root, 5), 3, 7, "minor", "7", "iv", 4,
                        "modal-interchange", Undefined),
          BorrowedChord(transposeNote(root, 10), 4, 7, "major", "7", "bVII", 7,
                        "modal-interchange", Undefined),
          BorrowedChord(transposeNote(root, 2), 3, 6, "diminished", "m7{flat}5", "ii{deg}", 2,
                        "modal-interchange", Undefined) >>

getNeapolitanChords(s) ==
  IF InvalidRootScale(s) THEN << >>
  ELSE << BorrowedChord(transposeNote(s.root, 1), 4, 7, "major", "Maj7", "bII", 2,
                        "neapolitan", "Pre-dominant, resolves to V or I") >>

secondaryDiminishedNumerals ==
  <<"vii{deg}/ii", "vii{deg}/iii", "vii{deg}/iv", "vii{deg}/v", "vii{deg}/vi", "vii{deg}/vii">>

getSecondaryDiminished(s) ==
  IF InvalidSecondaryScale(s) THEN << >>
  ELSE [k \in 1..(Len(s.notes) - 1) |->
          LET index == k
              targetNote == s.notes[index + 1]
              dimRoot == transposeNote(targetNote, 11) IN
          [EmptyObject EXCEPT
             !.root = dimRoot,
             !.notes = <<dimRoot, transposeNote(dimRoot, 3),
                         transposeNote(dimRoot, 6), transposeNote(dimRoot, 9)>>,
             !.quality = "diminished7",
             !.symbol = getChordSymbol(dimRoot, "diminished") \o "7",
             !.degree = ElemOrUndefined(secondaryDiminishedNumerals, index - 1),
             !.scaleDegree = index + 1,
             !.type = "secondary-diminished",
             !.resolvesTo = targetNote,
             !.function = "Leading tone chord"]]

\* the value getProgressionLayers returns
getProgressionLayers(s) ==
  [mainChords |-> harmonizeTriads(s),
   secondaryDominants |-> getSecondaryDominants(s),
   modalInterchange |-> getModalInterchangeChords(s),
   neapolitan |-> getNeapolitanChords(s),
   secondaryDiminished |-> getSecondaryDiminished(s)]

NoLayers ==
  [mainChords |-> << >>, secondaryDominants |-> << >>, modalInterchange |-> << >>,
   neapolitan |-> << >>, secondaryDiminished |-> << >>]

-----------------------------------------------------------------------------
(* core/ChordEngine.js: style templates and functional-harmony rules *)

\* chromaticChance is kept in hundredths (0.15 is 15)
getStyleTemplates ==
  [
     pop |-> [
       templates |-> <<
         [name |-> "Axis of Awesome", degrees |-> <<"0", "4", "5", "3">>],
         [name |-> "Sensitive Female", degrees |-> <<"5", "3", "0", "4">>],
         [name |-> "50s Doo-Wop", degrees |-> <<"0", "5", "3", "4">>],
         [name |-> "Pachelbel Canon", degrees |-> <<"0", "4", "5", "2", "3", "0", "3", "4">>],
         [name |-> "Pop Punk", degrees |-> <<"0", "3", "5", "4">>],
         [name |-> "Andalusian", degrees |-> <<"5", "4", "3", "2">>],
         [name |-> "Sting/Police", degrees |-> <<"0", "bVII", "3", "0">>],
         [name |-> "Hey Joe", degrees |-> <<"0", "3", "0", "4", "0", "bVII", "0", "0">>],
         [name |-> "Sweet Home", degrees |-> <<"0", "0", "3", "3", "4", "4", "0", "0">>],
         [name |-> "Green Day", degrees |-> <<"0", "4", "1", "3">>],
         [name |-> "Blink-182", degrees |-> <<"0", "3", "5", "4">>],
         [name |-> "Taylor Swift", degrees |-> <<"0", "4", "2", "3">>]>>,
       chromaticChancePct |-> 15,
       preferredCadence |-> "authentic"],
     jazz |-> [
       templates |-> <<
         [name |-> "ii-V-I", degrees |-> <<"1", "4", "0">>],
         [name |-> "ii-V-I-VI", degrees |-> <<"1", "4", "0", "5">>],
         [name |-> "I-VI-ii-V", degrees |-> <<"0", "5", "1", "4">>],
         [name |-> "iii-VI-ii-V", degrees |-> <<"2", "5", "1", "4">>],
         [name |-> "Coltrane Changes", degrees |-> <<"0", "V/bVI", "bVI", "V/bIII", "bIII", "V/I">>],
         [name |-> "Bird Blues", degrees |-> <<"0", "V/IV", "3", "iv", "0", "V/ii", "1", "4", "0", "V/ii", "1", "4">>],
         [name |-> "Modal Jazz", degrees |-> <<"1", "4", "1", "4", "1", "4", "0", "0">>],
         [name |-> "Autumn Leaves", degrees |-> <<"1", "4", "0", "3", "6", "V/ii", "1", "1">>],
         [name |-> "Backdoor ii-V", degrees |-> <<"0", "iv", "bVII", "0">>],
         [name |-> "Tritone Sub", degrees |-> <<"1", "bII", "0">>],
         [name |-> "Lady Bird", degrees |-> <<"0", "V/IV", "3", "V/bVI", "bVI", "V/bIII", "bIII", "0">>],
         [name |-> "Confirmation", degrees |-> <<"0", "V/ii", "1", "4", "0", "2", "V/ii", "1">>]>>,
       chromaticChancePct |-> 40,
       preferredCadence |-> "ii-V-I"],
     classical |-> [
       templates |-> <<
         [name |-> "Authentic Cadence", degrees |-> <<"0", "3", "4", "0">>],
         [name |-> "Plagal Cadence", degrees |-> <<"0", "4", "0", "3", "0">>],
         [name |-> "Circle of Fifths", degrees |-> <<"0", "3", "6", "2", "5", "1", "4", "0">>],
         [name |-> "Romanesca", degrees |-> <<"0", "4", "5", "2", "3", "0", "3", "4">>],
         [name |-> "Passamezzo", degrees |-> <<"0", "6", "0", "4", "0", "6", "4", "0">>],
         [name |-> "Baroque Sequence", degrees |-> <<"0", "3", "6", "2", "5", "1", "4", "0">>],
         [name |-> "Mozart Cadence", degrees |-> <<"3", "vii{deg}/V", "4", "0">>],
         [name |-> "Deceptive Cadence", degrees |-> <<"0", "3", "4", "5">>],
         [name |-> "Neapolitan", degrees |-> <<"0", "3", "bII", "4", "0">>],
         [name |-> "Augmented 6th", degrees |-> <<"0", "3", "bVI", "4", "0">>],
         [name |-> "Omnibus", degrees |-> <<"0", "V/IV", "3", "iv", "4", "0">>]>>,
       chromaticChancePct |-> 25,
       preferredCadence |-> "authentic"],
     blues |-> [
       templates |-> <<
         [name |-> "12-Bar Blues", degrees |-> <<"0", "0", "0", "0", "3", "3", "0", "0", "4", "3", "0", "4">>],
         [name |-> "Quick Change", degrees |-> <<"0", "3", "0", "0", "3", "3", "0", "0", "4", "3", "0", "4">>],
         [name |-> "8-Bar Blues", degrees |-> <<"0", "0", "3", "3", "0", "4", "0", "4">>],
         [name |-> "Minor Blues", degrees |-> <<"0", "0", "0", "0", "3", "3", "0", "0", "bVI", "4", "0", "4">>],
         [name |-> "Jazz Blues", degrees |-> <<"0", "V/IV", "3", "iv", "0", "V/ii", "1", "4", "0", "1", "4", "0">>],
         [name |-> "Stormy Monday", degrees |-> <<"0", "V/IV", "3", "iv", "0", "1", "4", "3", "0", "0">>],
         [name |-> "Bird Blues", degrees |-> <<"0", "V/IV", "3", "iv", "0", "5", "1", "4", "2", "4", "0", "4">>],
         [name |-> "Slow Blues", degrees |-> <<"0", "0", "0", "0", "3", "3", "0", "0", "4", "4", "0", "0">>]>>,
       chromaticChancePct |-> 20,
       preferredCadence |-> "blues"],
     rnb |-> [
       templates |-> <<
         [name |-> "Neo-Soul", degrees |-> <<"1", "4", "0", "5">>],
         [name |-> "Motown", degrees |-> <<"0", "0", "3", "4">>],
         [name |-> "Gospel Turn", degrees |-> <<"0", "0", "V/IV", "3">>],
         [name |-> "Quiet Storm", degrees |-> <<"1", "1", "4", "0">>],
         [name |-> "Erykah Badu", degrees |-> <<"1", "bIII", "4", "0">>],
         [name |-> "D'Angelo", degrees |-> <<"0", "2", "3", "4">>],
         [name |-> "Stevie Wonder", degrees |-> <<"0", "V/ii", "1", "4", "0", "bVII">>],
         [name |-> "Gospel Shout", degrees |-> <<"3", "0", "3", "0", "4", "0">>]>>,
       chromaticChancePct |-> 30,
       preferredCadence |-> "plagal"],
     edm |-> [
       templates |-> <<
         [name |-> "Trance", degrees |-> <<"5", "3", "0", "4">>],
         [name |-> "House", degrees |-> <<"0", "4", "5", "3">>],
         [name |-> "Future Bass", degrees |-> <<"0", "5", "3", "4">>],
         [name |-> "Euphoric", degrees |-> <<"5", "4", "0", "bVII">>],
         [name |-> "Dark Techno", degrees |-> <<"0", "bVII", "bVI", "4">>],
         [name |-> "Progressive", degrees |-> <<"0", "3", "5", "5">>],
         [name |-> "Melodic Dubstep", degrees |-> <<"5", "0", "3", "4">>],
         [name |-> "Tropical", degrees |-> <<"0", "5", "3", "3">>]>>,
       chromaticChancePct |-> 10,
       preferredCadence |-> "loop"],
     folk |-> [
       templates |-> <<
         [name |-> "Three Chord", degrees |-> <<"0", "3", "4", "0">>],
         [name |-> "Nashville", degrees |-> <<"0", "4", "3", "0">>],
         [name |-> "Wagon Wheel", degrees |-> <<"0", "4", "5", "3">>],
         [name |-> "Wildwood Flower", degrees |-> <<"0", "0", "3", "0", "0", "4", "0", "0">>],
         [name |-> "Irish Washerwoman", degrees |-> <<"0", "4", "0", "3", "0", "4", "0", "0">>],
         [name |-> "Bluegrass", degrees |-> <<"0", "3", "0", "4", "0", "3", "4", "0">>],
         [name |-> "Murder Ballad", degrees |-> <<"0", "5", "3", "4">>],
         [name |-> "Mountain Modal", degrees |-> <<"0", "bVII", "0", "3">>]>>,
       chromaticChancePct |-> 5,
       preferredCadence |-> "authentic"],
     metal |-> [
       templates |-> <<
         [name |-> "Power Chord", degrees |-> <<"0", "bVII", "bVI", "4">>],
         [name |-> "Djent", degrees |-> <<"0", "bVII", "0", "bVI">>],
         [name |-> "Thrash", degrees |-> <<"0", "bII", "0", "4">>],
         [name |-> "Doom", degrees |-> <<"0", "3", "0", "bVI">>],
         [name |-> "Gallop", degrees |-> <<"0", "0", "bVII", "bVII", "bVI", "bVI", "4", "4">>],
         [name |-> "Prog Metal", degrees |-> <<"0", "2", "5", "bVII", "3", "4">>],
         [name |-> "Nu Metal", degrees |-> <<"0", "0", "bVII", "3">>],
         [name |-> "Harmonic Minor", degrees |-> <<"0", "3", "4", "0">>]>>,
       chromaticChancePct |-> 35,
       preferredCadence |-> "phrygian"],
     experimental |-> [
       templates |-> <<
         [name |-> "Chromatic Planing", degrees |-> <<"0", "bII", "1", "bIII", "2", "bVI">>],
         [name |-> "Whole Tone", degrees |-> <<"0", "bIII", "bVI", "0">>],
         [name |-> "Quartal", degrees |-> <<"0", "3", "bVII", "2", "5">>],
         [name |-> "Atonal Island", degrees |-> <<"0", "bVI", "2", "bII", "4", "bVII">>],
         [name |-> "Messiaen Mode", degrees |-> <<"0", "bII", "2", "3", "bVI", "5">>],
         [name |-> "Coltrane Matrix", degrees |-> <<"0", "bVI", "bIII", "0">>],
         [name |-> "Negative Harmony", degrees |-> <<"0", "3", "iv", "0">>],
         [name |-> "Random Walk", degrees |-> <<>>]>>,
       chromaticChancePct |-> 60,
       preferredCadence |-> "none"]
  ]

StyleKeys == DOMAIN getStyleTemplates

\* templates[style] for a name the templates object inherits: a function (or
\* Object.prototype) with no templates, no chromaticChance and no preferredCadence
InheritedStyleConfig == [preferredCadence |-> Undefined]

\* styleConfig.templates is undefined: reading its length throws (line 648)
TemplatesUnreadable(st) == st \in ObjectPrototypeKeys \ StyleKeys

\* templates[style] || templates.pop
StyleConfig(st) ==
  IF st \in StyleKeys THEN getStyleTemplates[st]
  ELSE IF st \in ObjectPrototypeKeys THEN InheritedStyleConfig
  ELSE getStyleTemplates["pop"]

getFunctionalHarmonyRules ==
  ("I" :> <<"V", "vii", "IV", "ii", "vi", "bVII", "bVI", "bII">>) @@
  ("vi" :> <<"I", "V", "IV", "iii", "bVII">>) @@
  ("iii" :> <<"I", "vi", "IV", "V">>) @@
  ("IV" :> <<"I", "vi", "ii", "iii", "bVII">>) @@
  ("ii" :> <<"I", "vi", "IV", "iii">>) @@
  ("V" :> <<"IV", "ii", "I", "vi", "bII", "bVI">>) @@
  ("vii" :> <<"IV", "ii", "vi">>) @@
  ("bVII" :> <<"I", "IV", "vi", "bVI">>) @@
  ("bVI" :> <<"I", "V", "bVII", "iv">>) @@
  ("bIII" :> <<"I", "bVI", "bVII">>) @@
  ("iv" :> <<"I", "V", "bVI", "bVII">>) @@
  ("bII" :> <<"IV", "ii", "I", "vi">>)

-----------------------------------------------------------------------------
(* core/ChordEngine.js: the Progression Composer, template strategy *)

\* typeof degree === 'number'
IsNumber(token) == token \in {"0", "1", "2", "3", "4", "5", "6"}

\* variant: template degrees read as 1-based
NumberOfOneBased(token) ==
  CASE token = "0" -> 1 [] token = "1" -> 2 [] token = "2" -> 3 [] token = "3" -> 4
    [] token = "4" -> 5 [] token = "5" -> 6 [] token = "6" -> 7

NumberOf(token) ==
  CASE token = "0" -> 0 [] token = "1" -> 1 [] token = "2" -> 2 [] token = "3" -> 3
    [] token = "4" -> 4 [] token = "5" -> 5 [] token = "6" -> 6

NoIndex == -1

\* map[degree] ?? null, on the characters of the degree
degreeToIndex(degreeChars) ==
  CASE degreeChars \in {Chars["I"], Chars["i"]} -> 0
    [] degreeChars \in {Chars["II"], Chars["ii"]} -> 1
    [] degreeChars \in {Chars["III"], Chars["iii"]} -> 2
    [] degreeChars \in {Chars["IV"], Chars["iv"]} -> 3
    [] degreeChars \in {Chars["V"], Chars["v"]} -> 4
    [] degreeChars \in {Chars["VI"], Chars["vi"]} -> 5
    [] degreeChars \in {Chars["VII"], Chars["vii"]} -> 6
    [] OTHER -> NoIndex

modalMap == ("bIII" :> 0) @@ ("bVI" :> 1) @@ ("iv" :> 2) @@ ("bVII" :> 3) @@ ("ii{deg}" :> 4)

InRange(seq, i) == i + 1 \in 1..Len(seq)

resolveSpecialChord(notation, ls) ==
  LET cs == Chars[notation]
      domIndex == IF StartsWith(cs, <<"V", "/">>) THEN degreeToIndex(Substring(cs, 2)) ELSE NoIndex
      dimIndex == IF StartsWith(cs, <<"v", "i", "i", "{deg}", "/">>)
                  THEN degreeToIndex(Substring(cs, 5)) ELSE NoIndex IN
  IF domIndex # NoIndex /\ InRange(ls.secondaryDominants, domIndex - 1)
  THEN WithLayer(ls.secondaryDominants[domIndex], "secondary")
  ELSE IF dimIndex # NoIndex /\ InRange(ls.secondaryDiminished, dimIndex - 1)
  THEN WithLayer(ls.secondaryDiminished[dimIndex], "secondary-dim")
  ELSE IF notation \in DOMAIN modalMap /\ InRange(ls.modalInterchange, modalMap[notation])
  THEN WithLayer(ls.modalInterchange[modalMap[notation] + 1], "modal")
  ELSE IF notation = "bII" /\ InRange(ls.neapolitan, 0)
  THEN WithLayer(ls.neapolitan[1], "neapolitan")
  ELSE WithLayer(SpreadAt(ls.mainChords, 0), "main")

RECURSIVE templateToChords(_, _)
templateToChords(degrees, ls) ==
  IF degrees = << >> THEN << >>
  ELSE LET degree == Head(degrees)
           rest == templateToChords(Tail(degrees), ls) IN
       IF IsNumber(degree)
       THEN (IF InRange(ls.mainChords, NumberOf(degree))
             THEN <<WithLayer(ls.mainChords[NumberOf(degree) + 1], "main")>>
             ELSE << >>) \o rest
       ELSE LET chord == resolveSpecialChord(degree, ls) IN
            <<WithLayer(chord, IF Falsy(chord.layer) THEN "main" ELSE chord.layer)>> \o rest

\* the chance of applyComplexityVariation, in thousandths; 0 where the value compared
\* with Math.random() is no number (an inherited function, or undefined) and the
\* comparison of line 791 is never true
chromaticChance(cx, styleConfig) ==
  IF cx \in ObjectPrototypeKeys \/ "chromaticChancePct" \notin DOMAIN styleConfig THEN 0
  ELSE CASE cx = "simple" -> styleConfig.chromaticChancePct * 3
         [] cx = "moderate" -> styleConfig.chromaticChancePct * 10
         [] cx = "complex" -> styleConfig.chromaticChancePct * 15
         [] OTHER -> styleConfig.chromaticChancePct * 10

\* the outcomes of Math.random() < p, with p in thousandths
Draws(p) == {b \in BOOLEAN : (b => p > 0) /\ (~b => p < 1000)}

\* Array.prototype.find with the test c[field] === value: the 1-based
\* position of the first match, 0 if none
FindFirst(seq, field, value) ==
  IF \E k \in 1..Len(seq) : seq[k][field] = value
  THEN CHOOSE k \in 1..Len(seq) :
         seq[k][field] = value /\ \A j \in 1..(k - 1) : seq[j][field] # value
  ELSE 0

\* whether applyComplexityVariation returns a new secondary dominant for chord
VariationApplies(chord, ls, hit) ==
  hit /\ chord.scaleDegree > 1
      /\ FindFirst(ls.secondaryDominants, "resolvesTo", chord.root) # 0

\* the object applyComplexityVariation allocates; ref is the reference of chord
applyComplexityVariation(chord, ref, ls) ==
  LET secDom == ls.secondaryDominants[
                  FindFirst(ls.secondaryDominants, "resolvesTo", chord.root)] IN
  [secDom EXCEPT !.layer = "secondary", !.resolvesToNext = ref]

-----------------------------------------------------------------------------
(* core/ChordEngine.js: the resolution-consistency pass *)

\* the hint position i of progression p writes on its chord object (Undefined: none)
ResolutionHint(p, h, ls, i) ==
  LET chord == h[p[i]]
      hasNext == i < Len(p)
      nextChord == IF hasNext THEN h[p[i + 1]] ELSE EmptyObject
      missed == ~hasNext \/ nextChord.root # chord.resolvesTo IN
  IF chord.type = "neapolitan"
  THEN IF hasNext /\ nextChord.scaleDegree # 5 /\ nextChord.scaleDegree # 1
       THEN "V or I" ELSE Undefined
  ELSE IF chord.type = "secondary-dominant" /\ ~Falsy(chord.resolvesTo)
  THEN IF missed /\ FindFirst(ls.mainChords, "root", chord.resolvesTo) # 0 /\ i < Len(p)
       THEN chord.resolvesTo ELSE Undefined
  ELSE IF chord.type = "secondary-diminished" /\ ~Falsy(chord.resolvesTo)
  THEN IF missed THEN chord.resolvesTo ELSE Undefined
  ELSE Undefined

\* one iteration of the loop of ensureChromaticResolution, at position i
ResolveAt(p, h, ls, i) ==
  LET hint == ResolutionHint(p, h, ls, i) IN
  IF hint = Undefined THEN h ELSE [h EXCEPT ![p[i]].expectsResolution = hint]

\* the heap after the loop of ensureChromaticResolution ran positions 1..n
RECURSIVE ensureChromaticResolution(_, _, _, _)
ensureChromaticResolution(p, h, ls, n) ==
  IF n = 0 THEN h
  ELSE CHOOSE after \in {ResolveAt(p, before, ls, n) :
                            before \in {ensureChromaticResolution(p, h, ls, n - 1)}} : TRUE

-----------------------------------------------------------------------------
(* core/ChordEngine.js: the Progression Composer, algorithmic strategy *)

\* chromaticWeights, in hundredths
chromaticWeights ==
  [simple |-> [main |-> 90, secondary |-> 7, modal |-> 3, neapolitan |-> 0, secondaryDim |-> 0],
   moderate |-> [main |-> 65, secondary |-> 18, modal |-> 12, neapolitan |-> 3, secondaryDim |-> 2],
   complex |-> [main |-> 40, secondary |-> 25, modal |-> 20, neapolitan |-> 8, secondaryDim |-> 7]]

\* Object.entries of an inherited function: no entries
NoWeights == [layerName \in {} |-> 0]

\* chromaticWeights[complexity] || chromaticWeights.moderate
Weights(cx) ==
  IF cx \in DOMAIN chromaticWeights THEN chromaticWeights[cx]
  ELSE IF cx \in ObjectPrototypeKeys THEN NoWeights
  ELSE chromaticWeights["moderate"]

LayerOrder == <<"main", "secondary", "modal", "neapolitan", "secondaryDim">>

\* the layers the cumulative draw of lines 965-975 can select; with no entries the
\* loop does not run and layer keeps its initial value 'main' (line 966)
LayerDraws(weights) ==
  IF DOMAIN weights = {} THEN {"main"}
  ELSE {LayerOrder[k] : k \in {j \in 1..Len(LayerOrder) : weights[LayerOrder[j]] > 0}}

availableChords(layer, ls) ==
  CASE layer = "secondary" -> ls.secondaryDominants
    [] layer = "modal" -> ls.modalInterchange
    [] layer = "neapolitan" -> ls.neapolitan
    [] layer = "secondaryDim" -> ls.secondaryDiminished
    [] OTHER -> ls.mainChords

layerKeyOf(layer) ==
  CASE layer = "secondary" -> "secondary"
    [] layer = "modal" -> "modal"
    [] layer = "neapolitan" -> "neapolitan"
    [] layer = "secondaryDim" -> "secondary-dim"
    [] OTHER -> "main"

\* degree?.toUpperCase().replace(/[^IVXB]/g, ''), as characters; << >> for undefined or ''
DegreeKey(degree, class) ==
  IF degree \notin DOMAIN Chars THEN << >>
  ELSE KeepOnly(ToUpperCase(Chars[degree]), class)

\* rules[currentDegree], with currentDegree || 'I'
RuleFor(currentChord) ==
  LET key == DegreeKey(currentChord.degree, {"I", "V", "X", "B"})
      currentDegree == IF key = << >> THEN Chars["I"] ELSE key
      hits == {r \in DOMAIN getFunctionalHarmonyRules : Chars[r] = currentDegree} IN
  IF hits = {} THEN << >> ELSE <<getFunctionalHarmonyRules[CHOOSE r \in hits : TRUE]>>

countCommonTones(notes1, notes2) ==
  Cardinality({k \in 1..Len(notes1) : \E j \in 1..Len(notes2) : notes2[j] = notes1[k]})

styleScores ==
  [pop |-> ("IV" :> 5) @@ ("V" :> 5) @@ ("vi" :> 8),
   jazz |-> ("ii" :> 10) @@ ("V" :> 8) @@ ("vi" :> 5),
   classical |-> ("V" :> 10) @@ ("IV" :> 5) @@ ("ii" :> 8),
   blues |-> ("IV" :> 10) @@ ("V" :> 8),
   folk |-> ("IV" :> 8) @@ ("V" :> 8) @@ ("I" :> 5)]

scoreChordTransition(from, to, st) ==
  LET commonTones == countCommonTones(from.notes, to.notes)
      bassInterval == Abs(getNoteIndex(from.root) - getNoteIndex(to.root))
      bass == (IF bassInterval = 5 \/ bassInterval = 7 THEN 15 ELSE 0)
              + (IF bassInterval = 2 \/ bassInterval = 1 THEN 10 ELSE 0)
              - (IF bassInterval = 0 THEN 20 ELSE 0)
      toDegree == DegreeKey(to.degree, {"I", "V", "X"})
      hits == IF st \in DOMAIN styleScores /\ to.degree \in DOMAIN Chars
              THEN {d \in DOMAIN styleScores[st] : Chars[d] = toDegree}
              ELSE {} IN
  commonTones * 10 + bass
    + (IF hits = {} THEN 0 ELSE styleScores[st][CHOOSE d \in hits : TRUE])

\* positions of cands after the stable descending sort: those among the first n
TopRanked(cands, current, st, n) ==
  LET score(k) == scoreChordTransition(current, cands[k], st)
      rank(k) == Cardinality({j \in 1..Len(cands) : score(j) > score(k)})
                 + Cardinality({j \in 1..(k - 1) : score(j) = score(k)}) IN
  {k \in 1..Len(cands) : rank(k) < n}

\* c.root !== currentChord.root || c.quality !== currentChord.quality, negated
SameChord(a, b) == a.root = b.root /\ a.quality = b.quality

FollowsRule(rule, chord) ==
  LET chordDegree == DegreeKey(chord.degree, {"I", "V", "X", "B"}) IN
  chord.degree \in DOMAIN Chars
    /\ \E k \in 1..Len(rule) : Includes(chordDegree, Chars[rule[k]])

\* the filter callback of lines 1007-1022 returns true for chord without reaching
\* the Math.random() < 0.2 of line 1017
KeptWithoutDraw(currentChord, chord, layerKey) ==
  /\ ~SameChord(chord, currentChord)
  /\ (layerKey = "main" /\ RuleFor(currentChord) # << >>)
       => FollowsRule(RuleFor(currentChord)[1], chord)

\* the chords selectNextChordFunctional can return for one layer draw
\* (a set of [threw, chord]: threw when scored is empty and selected.chord is read);
\* `sure` are the positions every filter pass keeps, `lucky` those a pass keeps only
\* when their Math.random() < 0.2 draw succeeds
SelectFromLayer(currentChord, ls, layer, st) ==
  LET avail == availableChords(layer, ls)
      layerKey == layerKeyOf(layer)
      rule == RuleFor(currentChord)
      checked == layerKey = "main" /\ rule # << >>
      sure == {k \in 1..Len(avail) : KeptWithoutDraw(currentChord, avail[k], layerKey)}
      lucky == {k \in 1..Len(avail) :
                 ~SameChord(avail[k], currentChord)
                 /\ checked /\ ~FollowsRule(rule[1], avail[k])}
      fallback == SelectSeqIdx(Len(ls.mainChords),
                    {k \in 1..Len(ls.mainChords) : ~SameChord(ls.mainChords[k], currentChord)})
      Valid(kept) == IF sure \cup kept = {}
                     THEN [k \in 1..Len(fallback) |-> ls.mainChords[fallback[k]]]
                     ELSE LET idx == SelectSeqIdx(Len(avail), sure \cup kept) IN
                          [k \in 1..Len(idx) |-> avail[idx[k]]]
      Picks(valid) == IF valid = << >>
                      THEN {[threw |-> TRUE, chord |-> EmptyObject]}
                      ELSE {[threw |-> FALSE, chord |-> WithLayer(valid[k], layerKey)] :
                              k \in TopRanked(valid, currentChord, st, 3)} IN
  UNION {Picks(valid) : valid \in {Valid(kept) : kept \in SUBSET lucky}}

selectNextChordFunctional(currentChord, ls, weights, st) ==
  UNION {SelectFromLayer(currentChord, ls, layer, st) : layer \in LayerDraws(weights)}

\* selectCadentialChord whose penultimate case ignores preferredCadence: always V
selectCadentialChordAuthentic(lastChord, ls, styleConfig, cadenceType) ==
  LET main(i) == WithLayer(SpreadAt(ls.mainChords, i), "main") IN
  CASE cadenceType = "final" -> {main(0), main(5)}
    [] cadenceType = "penultimate" -> {main(4)}
    [] cadenceType = "half" -> {main(4), main(5)}
    [] OTHER -> {main(0)}

\* selectCadentialChord whose final case can also end on the fifth degree
selectCadentialChordOpenEnding(lastChord, ls, styleConfig, cadenceType) ==
  LET preferredCadence == styleConfig.preferredCadence
      main(i) == WithLayer(SpreadAt(ls.mainChords, i), "main") IN
  CASE cadenceType = "final" -> {main(0), main(4), main(5)}
    [] cadenceType = "penultimate" ->
         IF preferredCadence = "plagal" \/ preferredCadence = "blues" THEN {main(3)}
         ELSE IF preferredCadence = "ii-V-I"
         THEN (IF lastChord.scaleDegree = 2 THEN {main(4)} ELSE {main(1)})
         ELSE IF preferredCadence = "phrygian"
         THEN {WithLayer(SpreadAt(ls.neapolitan, 0), "neapolitan")}
         ELSE {main(4)}
    [] cadenceType = "half" -> {main(4), main(5)}
    [] OTHER -> {main(0)}

\* the chords selectCadentialChord can return
selectCadentialChord(lastChord, ls, styleConfig, cadenceType) ==
  LET preferredCadence == styleConfig.preferredCadence
      main(i) == WithLayer(SpreadAt(ls.mainChords, i), "main") IN
  CASE cadenceType = "final" -> {main(0), main(5)}
    [] cadenceType = "penultimate" ->
         IF preferredCadence = "plagal" \/ preferredCadence = "blues" THEN {main(3)}
         ELSE IF preferredCadence = "ii-V-I"
         THEN (IF lastChord.scaleDegree = 2 THEN {main(4)} ELSE {main(1)})
         ELSE IF preferredCadence = "phrygian"
         THEN {WithLayer(SpreadAt(ls.neapolitan, 0), "neapolitan")}
         ELSE {main(4)}
    [] cadenceType = "half" -> {main(4), main(5)}
    [] OTHER -> {main(0)}

phraseLength == 4

\* the inner loop of generateAlgorithmic without the forced resolution of lines 901-907
NextChordChoicesUnforced(lastChord, ls, cx, st, len, i, ph) ==
  LET numPhrases == CeilDiv(len, phraseLength)
      isLastPhrase == ph = numPhrases - 1
      posInPhrase == i - ph * phraseLength
      isLastInPhrase == posInPhrase = phraseLength - 1
      Plain(cs) == {[threw |-> FALSE, chord |-> c] : c \in cs} IN
  IF i = len - 1
  THEN Plain(selectCadentialChord(lastChord, ls, StyleConfig(st), "final"))
  ELSE IF i = len - 2
  THEN Plain(selectCadentialChord(lastChord, ls, StyleConfig(st), "penultimate"))
  ELSE IF isLastInPhrase /\ ~isLastPhrase
  THEN Plain(selectCadentialChord(lastChord, ls, StyleConfig(st), "half"))
  ELSE selectNextChordFunctional(lastChord, ls, Weights(cx), st)

\* the chords one iteration of the inner loop of generateAlgorithmic can push at
\* position i (a set of [threw, chord])
NextChordChoices(lastChord, ls, cx, st, len, i, ph) ==
  LET numPhrases == CeilDiv(len, phraseLength)
      isLastPhrase == ph = numPhrases - 1
      posInPhrase == i - ph * phraseLength
      isLastInPhrase == posInPhrase = phraseLength - 1
      Plain(cs) == {[threw |-> FALSE, chord |-> c] : c \in cs}
      drawn == IF i = len - 1
               THEN Plain(selectCadentialChord(lastChord, ls, StyleConfig(st), "final"))
               ELSE IF i = len - 2
               THEN Plain(selectCadentialChord(lastChord, ls, StyleConfig(st), "penultimate"))
               ELSE IF isLastInPhrase /\ ~isLastPhrase
               THEN Plain(selectCadentialChord(lastChord, ls, StyleConfig(st), "half"))
               ELSE selectNextChordFunctional(lastChord, ls, Weights(cx), st)
      target == FindFirst(ls.mainChords, "root", lastChord.resolvesTo) IN
  IF lastChord.type \in {"secondary-dominant", "secondary-diminished"} /\ target # 0
  THEN {IF d.threw THEN d ELSE [threw |-> FALSE, chord |-> WithLayer(ls.mainChords[target], "main")] :
          d \in drawn}
  ELSE drawn

-----------------------------------------------------------------------------
(* State after construction: new ChordEngine(), new ScaleEngine(), no call made *)

\* the addresses of Scale objects: at most two objects have a reference leading to
\* them, the engine's currentScale and the Scale the caller kept
ScaleAddresses == {1, 2}

\* no Scale object exists
NoScaleObjects == [address \in ScaleAddresses |-> NullScale]

\* the caller has kept no Scale
NothingKept == [args |-> << >>, ref |-> 0, value |-> NullScale]

Init ==
  /\ currentChords = << >>
  /\ currentRoot = "C"
  /\ currentScaleType = "major"
  /\ currentScale = 0
  /\ scaleObjects = NoScaleObjects
  /\ pc = "idle"
  /\ scale = NullScale
  /\ length = 0
  /\ complexity = Undefined
  /\ style = Undefined
  /\ layers = NoLayers
  /\ strategy = Undefined
  /\ template = 0
  /\ heap = << >>
  /\ baseProgression = << >>
  /\ progression = << >>
  /\ forIdx = 0
  /\ phrase = 0
  /\ result = << >>
  /\ op = "new"
  /\ args = << >>
  /\ ret = [threw |-> FALSE, value |-> << >>]
  /\ lastHarmonized = NullScale
  /\ keptScale = NothingKept
  /\ analysis = 0

scaleEngineVars == <<currentRoot, currentScaleType, currentScale, scaleObjects>>

callVars == <<scale, length, complexity, style, layers>>

harnessVars == <<op, args, ret, lastHarmonized, keptScale, analysis>>

-----------------------------------------------------------------------------
(* generateProgression, step by step *)

\* lines 642-655: the call, the layers and the strategy draw
GenerateProgression(s, len, cx, st) ==
  /\ pc = "idle"
  /\ scale' = s
  /\ length' = len
  /\ complexity' = cx
  /\ style' = st
  /\ layers' = getProgressionLayers(s)
  /\ currentChords' = IF InvalidTriadScale(s) THEN currentChords ELSE harmonizeTriads(s)
  /\ \E draw \in BOOLEAN :
       IF draw /\ TemplatesUnreadable(st)
       THEN pc' = "error" /\ strategy' = Undefined
       ELSE LET useTemplate == draw /\ Len(StyleConfig(st).templates) > 0 IN
            /\ pc' = IF useTemplate THEN "fromTemplate" ELSE "algorithmic"
            /\ strategy' = IF useTemplate THEN "template" ELSE "algorithmic"
  /\ template' = 0
  /\ heap' = << >>
  /\ baseProgression' = << >>
  /\ progression' = << >>
  /\ forIdx' = 0
  /\ phrase' = 0
  /\ result' = << >>
  /\ op' = "generateProgression"
  /\ args' = <<s.root, s.type>>
  /\ ret' = [threw |-> FALSE, value |-> << >>]
  /\ UNCHANGED <<scaleEngineVars, lastHarmonized, keptScale, analysis>>

\* the templates of a style that fit the desired length (line 662)
validTemplates(styleConfig, len) ==
  {k \in 1..Len(styleConfig.templates) :
     Len(styleConfig.templates[k].degrees) > 0 /\ Len(styleConfig.templates[k].degrees) <= len}

\* lines 660-675: pick a template and resolve it, or fall back
GenerateFromTemplate ==
  /\ pc = "fromTemplate"
  /\ LET styleConfig == StyleConfig(style)
         valid == validTemplates(styleConfig, length) IN
     IF valid = {}
     THEN /\ pc' = "algorithmic"
          /\ strategy' = "algorithmic"
          /\ UNCHANGED <<template, heap, baseProgression>>
     ELSE \E k \in valid :
            LET chords == templateToChords(styleConfig.templates[k].degrees, layers) IN
            /\ template' = k
            /\ heap' = chords
            /\ baseProgression' = [j \in 1..Len(chords) |-> j]
            /\ pc' = "tmplWhile"
            /\ UNCHANGED strategy
  /\ UNCHANGED <<currentChords, progression, forIdx, phrase, result>>
  /\ UNCHANGED <<scaleEngineVars, callVars, harnessVars>>

\* line 678: the test of the while loop
TemplateWhile ==
  /\ pc = "tmplWhile"
  /\ IF Len(progression) < length
     THEN pc' = "tmplFor" /\ forIdx' = 1
     ELSE pc' = "resolve" /\ UNCHANGED forIdx
  /\ UNCHANGED <<currentChords, strategy, template, heap, baseProgression, progression,
                 phrase, result>>
  /\ UNCHANGED <<scaleEngineVars, callVars, harnessVars>>

\* lines 679-685: one iteration of the for-of loop, or its end
TemplateFor ==
  /\ pc = "tmplFor"
  /\ IF forIdx > Len(baseProgression) \/ Len(progression) >= length
     THEN /\ pc' = "tmplWhile"
          /\ UNCHANGED <<heap, progression, forIdx>>
     ELSE LET ref == baseProgression[forIdx]
              chord == heap[ref] IN
          \E hit \in Draws(chromaticChance(complexity, StyleConfig(style))) :
            /\ IF VariationApplies(chord, layers, hit)
               THEN /\ heap' = Append(heap, applyComplexityVariation(chord, ref, layers))
                    /\ progression' = Append(progression, Len(heap) + 1)
               ELSE /\ progression' = Append(progression, ref)
                    /\ UNCHANGED heap
            /\ forIdx' = forIdx + 1
            /\ UNCHANGED pc
  /\ UNCHANGED <<currentChords, strategy, template, baseProgression, phrase, result>>
  /\ UNCHANGED <<scaleEngineVars, callVars, harnessVars>>

\* lines 854-871: start on the tonic
GenerateAlgorithmic ==
  /\ pc = "algorithmic"
  /\ heap' = <<WithLayer(SpreadAt(layers.mainChords, 0), "main")>>
  /\ progression' = <<1>>
  /\ phrase' = 0
  /\ pc' = "algoPhrase"
  /\ UNCHANGED <<currentChords, strategy, template, baseProgression, forIdx, result>>
  /\ UNCHANGED <<scaleEngineVars, callVars, harnessVars>>

\* line 873: the test of the phrase loop; line 913: progression.slice(0, length)
AlgorithmicPhrase ==
  /\ pc = "algoPhrase"
  /\ IF phrase < CeilDiv(length, phraseLength)
     THEN pc' = "algoChord" /\ UNCHANGED progression
     ELSE /\ pc' = "resolve"
          /\ progression' = SubSeq(progression, 1, Min(length, Len(progression)))
  /\ UNCHANGED <<currentChords, strategy, template, heap, baseProgression, forIdx,
                 phrase, result>>
  /\ UNCHANGED <<scaleEngineVars, callVars, harnessVars>>

\* lines 878-910: one iteration of the inner loop, or its end
AlgorithmicChord ==
  /\ pc = "algoChord"
  /\ LET phraseStart == phrase * phraseLength
         phraseEnd == Min(phraseStart + phraseLength, length)
         i == Len(progression) IN
     IF i < phraseEnd
     THEN \E d \in NextChordChoices(heap[progression[Len(progression)]], layers,
                                    complexity, style, length, i, phrase) :
            IF d.threw
            THEN pc' = "error" /\ UNCHANGED <<heap, progression, phrase>>
            ELSE /\ heap' = Append(heap, d.chord)
                 /\ progression' = Append(progression, Len(heap) + 1)
                 /\ UNCHANGED <<pc, phrase>>
     ELSE /\ phrase' = phrase + 1
          /\ pc' = "algoPhrase"
          /\ UNCHANGED <<heap, progression>>
  /\ UNCHANGED <<currentChords, strategy, template, baseProgression, forIdx, result>>
  /\ UNCHANGED <<scaleEngineVars, callVars, harnessVars>>

\* lines 808-849: the resolution-consistency pass and the return
EnsureChromaticResolution ==
  /\ pc = "resolve"
  /\ heap' = ensureChromaticResolution(progression, heap, layers, Len(progression))
  /\ result' = progression
  /\ pc' = "done"
  /\ UNCHANGED <<currentChords, strategy, template, baseProgression, progression,
                 forIdx, phrase>>
  /\ UNCHANGED <<scaleEngineVars, callVars, harnessVars>>

Compose ==
  \/ GenerateFromTemplate
  \/ TemplateWhile
  \/ TemplateFor
  \/ GenerateAlgorithmic
  \/ AlgorithmicPhrase
  \/ AlgorithmicChord
  \/ EnsureChromaticResolution

\* the chords of the returned progression
Returned == [k \in 1..Len(result) |-> heap[result[k]]]

-----------------------------------------------------------------------------
(* core/ChordEngine.js: the Progression Analyzer *)

getChordFunction(chord) ==
  IF chord.degree \notin DOMAIN Chars \/ chord.degree = "" THEN "Unknown"
  ELSE LET degree == ToUpperCase(Chars[chord.degree])
           has(s) == Includes(degree, Chars[s]) IN
       IF has("I") /\ ~has("II") /\ ~has("III") /\ ~has("VI") THEN "Tonic"
       ELSE IF has("V") \/ has("VII") THEN "Dominant"
       ELSE IF has("IV") \/ has("II") THEN "Subdominant"
       ELSE IF has("VI") \/ has("III") THEN "Tonic/Predominant"
       ELSE "Chromatic"

analyzeTransition(chord1, chord2) ==
  LET commonTones == countCommonTones(chord1.notes, chord2.notes)
      quality == IF commonTones = 0 THEN "disjunct"
                 ELSE IF commonTones >= 2 THEN "very smooth"
                 ELSE "smooth" IN
  [commonTones |-> commonTones, quality |-> quality, voiceLeading |-> quality]

\* chordAnalysis.transition of the first chord: the property is absent
NoTransition == [commonTones |-> 0, quality |-> Undefined, voiceLeading |-> Undefined]

\* const analysis (lines 1100-1106): the scale is not null
newAnalysis(prog, s) ==
  [length |-> Len(prog),
   chords |-> << >>,
   features |-> << >>,
   keyCenter |-> s.root,
   complexity |-> "moderate"]

\* const chordAnalysis of the forEach callback (lines 1110-1122), for index = k - 1
chordAnalysis(prog, k) ==
  [position |-> k,
   symbol |-> prog[k].symbol,
   degree |-> prog[k].degree,
   layer |-> prog[k].layer,
   function |-> getChordFunction(prog[k]),
   transition |-> IF k > 1 THEN analyzeTransition(prog[k - 1], prog[k])
                  ELSE NoTransition]

\* the analysis object a after lines 1128-1174: the layer counts, the complexity,
\* the features and the cadence of the last two chords
finishedAnalysis(a, prog) ==
  LET layerCount(l) == Cardinality({k \in 1..Len(prog) : prog[k].layer = l})
      nonDiatonicChords == Len(prog) - layerCount("main")
      cadence == IF Len(prog) >= 2
                 THEN (IF prog[Len(prog) - 1].degree = "V" /\ prog[Len(prog)].degree = "I"
                       THEN <<"Perfect authentic cadence (V-I)">>
                       ELSE IF prog[Len(prog) - 1].degree = "IV" /\ prog[Len(prog)].degree = "I"
                       THEN <<"Plagal cadence (IV-I)">>
                       ELSE << >>)
                 ELSE << >> IN
  [a EXCEPT
     !.complexity = IF nonDiatonicChords = 0 THEN "simple"
                    ELSE IF nonDiatonicChords <= 2 THEN "moderate"
                    ELSE "complex",
     !.features = @ \o (IF layerCount("secondary") > 0 THEN <<"Contains secondary dominants">> ELSE << >>)
                    \o (IF layerCount("modal") > 0 THEN <<"Uses modal interchange">> ELSE << >>)
                    \o (IF layerCount("neapolitan") > 0 THEN <<"Includes Neapolitan harmony">> ELSE << >>)
                    \o (IF layerCount("secondary-dim") > 0
                        THEN <<"Uses secondary diminished chords">> ELSE << >>)
                    \o cadence]

\* the analysis record (the scale is not null)
analyzeProgression(prog, s) ==
  finishedAnalysis([newAnalysis(prog, s) EXCEPT
                      !.chords = [k \in 1..Len(prog) |-> chordAnalysis(prog, k)]],
                   prog)

\* getChordsContainingNote(note) without a chord list: searches this.currentChords
getChordsContainingNote(note, chordsToSearch) ==
  LET keep == {k \in 1..Len(chordsToSearch) :
                 \E j \in 1..Len(chordsToSearch[k].notes) :
                   getNoteIndex(chordsToSearch[k].notes[j]) = getNoteIndex(note)}
      idx == SelectSeqIdx(Len(chordsToSearch), keep) IN
  [k \in 1..Len(idx) |-> chordsToSearch[idx[k]]]

\* triads[i] where the list has no such element: the value undefined, kept a record
UndefinedChord == [EmptyObject EXCEPT !.type = Null]

\* the six named progressions over the triads of a scale
commonProgressionsOf(triads) ==
  LET at(i) == IF InRange(triads, i) THEN triads[i + 1] ELSE UndefinedChord IN
  << [name |-> "I-IV-V", description |-> "Classic progression",
      chords |-> <<at(0), at(3), at(4)>>],
     [name |-> "I-V-vi-IV", description |-> "Pop progression",
      chords |-> <<at(0), at(4), at(5), at(3)>>],
     [name |-> "ii-V-I", description |-> "Jazz progression",
      chords |-> <<at(1), at(4), at(0)>>],
     [name |-> "I-vi-IV-V", description |-> "50s progression",
      chords |-> <<at(0), at(5), at(3), at(4)>>],
     [name |-> "vi-IV-I-V", description |-> "Sensitive progression",
      chords |-> <<at(5), at(3), at(0), at(4)>>],
     [name |-> "I-IV-vi-V", description |-> "Alternative pop",
      chords |-> <<at(0), at(3), at(5), at(4)>>] >>

getCommonProgressions(s) ==
  CHOOSE progressions \in {commonProgressionsOf(triads) : triads \in {harmonizeTriads(s)}} : TRUE

getSubstitutions(chord, s) ==
  LET triads == harmonizeTriads(s)
      shared(triad) == Cardinality({k \in 1..Len(chord.notes) :
                          \E j \in 1..Len(triad.notes) :
                            getNoteIndex(triad.notes[j]) = getNoteIndex(chord.notes[k])})
      idx == SelectSeqIdx(Len(triads),
               {k \in 1..Len(triads) : triads[k].root # chord.root /\ shared(triads[k]) >= 2}) IN
  [k \in 1..Len(idx) |->
     [chord |-> triads[idx[k]],
      sharedNotes |-> shared(triads[idx[k]]),
      type |-> IF shared(triads[idx[k]]) = 2 THEN "common tone" ELSE "strong"]]

-----------------------------------------------------------------------------
(* Outcomes of library calls: a returned value, or a thrown TypeError *)

Returns(v) == [threw |-> FALSE, value |-> v]

Throws == [threw |-> TRUE, value |-> << >>]

\* reading s.notes.length / s.notes.forEach throws when s is null or has no notes list
NotesUnreadable(s) == IsNullScale(s) \/ ~HasNotes(s)

\* reading s.root throws when s is null
RootUnreadable(s) == IsNullScale(s)

\* what a caller of one scale-taking ChordEngine function observes
CallOutcome(f, s) ==
  CASE f = "harmonizeTriads" ->
         IF InvalidTriadScale(s) THEN Returns(<< >>)
         ELSE IF NotesUnreadable(s) THEN Throws ELSE Returns(harmonizeTriads(s))
    [] f = "harmonizeSeventhChords" ->
         IF InvalidSeventhScale(s) THEN Returns(<< >>)
         ELSE IF NotesUnreadable(s) THEN Throws ELSE Returns(harmonizeSeventhChords(s))
    [] f = "getSecondaryDominants" ->
         IF InvalidSecondaryScale(s) THEN Returns(<< >>)
         ELSE IF NotesUnreadable(s) THEN Throws ELSE Returns(getSecondaryDominants(s))
    [] f = "getSecondaryDiminished" ->
         IF InvalidSecondaryScale(s) THEN Returns(<< >>)
         ELSE IF NotesUnreadable(s) THEN Throws ELSE Returns(getSecondaryDiminished(s))
    [] f = "getModalInterchangeChords" ->
         IF InvalidRootScale(s) THEN Returns(<< >>)
         ELSE IF RootUnreadable(s) THEN Throws ELSE Returns(getModalInterchangeChords(s))
    [] f = "getNeapolitanChords" ->
         IF InvalidRootScale(s) THEN Returns(<< >>)
         ELSE IF RootUnreadable(s) THEN Throws ELSE Returns(getNeapolitanChords(s))

\* what a caller of harmonize(scale, includeSevenths) observes (lines 91-100): the
\* triads of harmonizeTriads, and the sevenths of harmonizeSeventhChords when asked for
harmonize(s, includeSevenths) ==
  LET triads == CallOutcome("harmonizeTriads", s)
      sevenths == CallOutcome("harmonizeSeventhChords", s) IN
  IF triads.threw THEN Throws
  ELSE IF ~includeSevenths THEN Returns([triads |-> triads.value])
  ELSE IF sevenths.threw THEN Throws
  ELSE Returns([triads |-> triads.value, sevenths |-> sevenths.value])

ScaleFunctions ==
  {"harmonizeTriads", "harmonizeSeventhChords", "getSecondaryDominants",
   "getSecondaryDiminished", "getModalInterchangeChords", "getNeapolitanChords"}

-----------------------------------------------------------------------------
(* core/ScaleEngine.js: the operations that replace the current scale *)

composerVars ==
  <<pc, strategy, template, heap, baseProgression, progression, forIdx, phrase, result>>

\* the object a reference leads to; null for the null reference
ScaleAt(objects, ref) == IF ref = 0 THEN NullScale ELSE objects[ref]

\* this.currentScale, read through its reference
CurrentScale == ScaleAt(scaleObjects, currentScale)

\* const scale = { ... } (lines 2569-2578) and this.currentScale = scale (line 2581):
\* a new object at an address no reference leads to; an object that neither the
\* engine nor the caller refers to any longer is dropped
storeNewScale(built) ==
  LET address == IF keptScale.ref = 1 THEN 2 ELSE 1 IN
  /\ currentScale' = address
  /\ scaleObjects' = [a \in ScaleAddresses |->
                        IF a = address THEN built
                        ELSE IF a = keptScale.ref THEN scaleObjects[a]
                        ELSE NullScale]

\* what a caller of generateScale(root, scaleType) observes
generateScaleOutcome(root, scaleType) ==
  IF HasPattern(scaleType) /\ IntervalsUnreadable(scaleType) THEN Throws
  ELSE Returns(generateScaleValue(root, scaleType))

\* lines 2559-2588, called as `caller` with the arguments `given`
generateScale(root, scaleType, caller, given) ==
  LET built == generateScaleValue(root, scaleType) IN
  /\ op' = caller
  /\ args' = given
  /\ ret' = generateScaleOutcome(root, scaleType)
  /\ IF IsNullScale(built)
     THEN UNCHANGED scaleEngineVars
     ELSE /\ storeNewScale(built)
          /\ currentRoot' = root
          /\ currentScaleType' = scaleType
  /\ UNCHANGED <<currentChords, callVars, composerVars, lastHarmonized, keptScale, analysis>>

GenerateScale(root, scaleType) ==
  /\ pc = "idle"
  /\ generateScale(root, scaleType, "generateScale", <<root, scaleType>>)

\* a transpose that rewrites the Scale object this.currentScale refers to, where
\* there is one, and creates none
TransposeInPlace(newRoot) ==
  LET built == generateScaleValue(newRoot, currentScaleType) IN
  /\ pc = "idle"
  /\ op' = "transpose"
  /\ args' = <<newRoot>>
  /\ ret' = IF Falsy(currentScaleType) THEN Returns(NullScale)
            ELSE generateScaleOutcome(newRoot, currentScaleType)
  /\ IF Falsy(currentScaleType) \/ IsNullScale(built)
     THEN UNCHANGED scaleEngineVars
     ELSE /\ currentRoot' = newRoot
          /\ IF currentScale = 0
             THEN storeNewScale(built)
             ELSE /\ scaleObjects' = [scaleObjects EXCEPT ![currentScale] = built]
                  /\ UNCHANGED currentScale
          /\ UNCHANGED currentScaleType
  /\ UNCHANGED <<currentChords, callVars, composerVars, lastHarmonized, keptScale, analysis>>

\* lines 2593-2600
Transpose(newRoot) ==
  /\ pc = "idle"
  /\ IF Falsy(currentScaleType)
     THEN /\ op' = "transpose"
          /\ args' = <<newRoot>>
          /\ ret' = Returns(NullScale)
          /\ UNCHANGED <<scaleEngineVars, currentChords, callVars, composerVars, lastHarmonized, keptScale, analysis>>
     ELSE generateScale(newRoot, currentScaleType, "transpose", <<newRoot>>)

\* lines 2605-2612
ChangeScaleType(newScaleType) ==
  /\ pc = "idle"
  /\ IF Falsy(currentRoot)
     THEN /\ op' = "changeScaleType"
          /\ args' = <<newScaleType>>
          /\ ret' = Returns(NullScale)
          /\ UNCHANGED <<scaleEngineVars, currentChords, callVars, composerVars, lastHarmonized, keptScale, analysis>>
     ELSE generateScale(currentRoot, newScaleType, "changeScaleType", <<newScaleType>>)

\* the fields of a ScaleEngine as one record, currentScale as the object it refers
\* to; assigned: the call at hand has assigned a new object to this.currentScale
EngineFields == [currentRoot |-> currentRoot, currentScaleType |-> currentScaleType,
                 currentScale |-> CurrentScale, assigned |-> FALSE]

\* this.generateScale(root, scaleType) on an engine with the fields e: the fields
\* afterwards and the value returned
generateScaleOn(e, root, scaleType) ==
  LET built == generateScaleValue(root, scaleType) IN
  [engine |-> IF IsNullScale(built) THEN e
              ELSE [currentRoot |-> root, currentScaleType |-> scaleType,
                    currentScale |-> built, assigned |-> TRUE],
   value |-> built]

\* getRelativeScale: the branch taken by the category of scaleToUse
getRelativeScaleOn(e, given) ==
  LET scaleToUse == IF IsNullScale(given) THEN e.currentScale ELSE given IN
  IF IsNullScale(scaleToUse) THEN [engine |-> e, value |-> NullScale]
  ELSE IF scaleToUse.category = "minor"
  THEN generateScaleOn(e, transposeNote(scaleToUse.root, 3), "major")
  ELSE IF scaleToUse.category = "major"
  THEN generateScaleOn(e, transposeNote(scaleToUse.root, 9), "naturalMinor")
  ELSE [engine |-> e, value |-> NullScale]

getParallelScaleOn(e, given) ==
  LET scaleToUse == IF IsNullScale(given) THEN e.currentScale ELSE given IN
  IF IsNullScale(scaleToUse) THEN [engine |-> e, value |-> NullScale]
  ELSE IF scaleToUse.category = "minor"
  THEN generateScaleOn(e, scaleToUse.root, "major")
  ELSE IF scaleToUse.category = "major"
  THEN generateScaleOn(e, scaleToUse.root, "naturalMinor")
  ELSE [engine |-> e, value |-> NullScale]

modeNames == <<"major", "dorian", "phrygian", "lydian", "mixolydian", "aeolian", "locrian">>

getModeOn(e, modeNumber, root) ==
  LET rootToUse == IF Falsy(root) THEN e.currentRoot ELSE root
      modeIndex == modeNumber - 1 IN
  IF modeIndex < 0 \/ modeIndex >= Len(modeNames)
  THEN [engine |-> e, value |-> NullScale]
  ELSE generateScaleOn(e, rootToUse, modeNames[modeIndex + 1])

\* the loop of getAllModes after n rounds: the fields and the modes pushed so far
RECURSIVE allModesOn(_, _, _)
allModesOn(e, scaleToUse, n) ==
  IF n = 0 THEN [engine |-> e, value |-> << >>]
  ELSE LET before == allModesOn(e, scaleToUse, n - 1)
           i == n
           modeRoot == ElemOrUndefined(scaleToUse.notes, i - 1)
           mode == getModeOn(before.engine, i, modeRoot) IN
       [engine |-> mode.engine, value |-> Append(before.value, mode.value)]

getAllModesOn(e, given) ==
  LET scaleToUse == IF IsNullScale(given) THEN e.currentScale ELSE given IN
  IF IsNullScale(scaleToUse) THEN [engine |-> e, value |-> << >>]
  ELSE allModesOn(e, scaleToUse, 7)

\* a ScaleEngine call by `caller` with the arguments `given` that ends as outcome says
EngineCall(caller, given, outcome) ==
  /\ pc = "idle"
  /\ op' = caller
  /\ args' = given
  /\ ret' = Returns(outcome.value)
  /\ currentRoot' = outcome.engine.currentRoot
  /\ currentScaleType' = outcome.engine.currentScaleType
  /\ IF outcome.engine.assigned
     THEN storeNewScale(outcome.engine.currentScale)
     ELSE UNCHANGED <<currentScale, scaleObjects>>
  /\ UNCHANGED <<currentChords, callVars, composerVars, lastHarmonized, keptScale, analysis>>

\* lines 2747-2762
GetRelativeScale(given) ==
  EngineCall("getRelativeScale", <<given>>, getRelativeScaleOn(EngineFields, given))

\* lines 2767-2778
GetParallelScale(given) ==
  EngineCall("getParallelScale", <<given>>, getParallelScaleOn(EngineFields, given))

\* lines 2783-2804
GetMode(modeNumber, root) ==
  EngineCall("getMode", <<modeNumber, root>>, getModeOn(EngineFields, modeNumber, root))

\* lines 2809-2820
GetAllModes(given) ==
  EngineCall("getAllModes", <<given>>, getAllModesOn(EngineFields, given))

\* the caller keeps the Scale the last generateScale call returned: a reference to
\* the object the engine stored at line 2581 (null where the call returned null),
\* and a copy of what the object held when it was returned
KeepScale ==
  /\ pc = "idle"
  /\ op = "generateScale"
  /\ ~ret.threw
  /\ keptScale = NothingKept
  /\ keptScale' = [args |-> args,
                   ref |-> IF IsNullScale(ret.value) THEN 0 ELSE currentScale,
                   value |-> ret.value]
  /\ UNCHANGED <<currentChords, scaleEngineVars, callVars, composerVars, op, args, ret,
                 lastHarmonized, analysis>>

-----------------------------------------------------------------------------
(* core/ChordEngine.js: calls on one engine, one after the other *)

\* harmonizeTriads .. getNeapolitanChords; line 45 stores the triads in the engine
CallScaleFunction(f, s) ==
  /\ pc = "idle"
  /\ op' = f
  /\ args' = <<s>>
  /\ ret' = CallOutcome(f, s)
  /\ IF f = "harmonizeTriads" /\ ~CallOutcome(f, s).threw /\ ~InvalidTriadScale(s)
     THEN currentChords' = harmonizeTriads(s) /\ lastHarmonized' = s
     ELSE UNCHANGED <<currentChords, lastHarmonized>>
  /\ UNCHANGED <<scaleEngineVars, callVars, composerVars, keptScale, analysis>>

\* lines 426-434: the call of harmonizeTriads inside stores the triads as well
GetProgressionLayers(s) ==
  /\ pc = "idle"
  /\ op' = "getProgressionLayers"
  /\ args' = <<s>>
  /\ ret' = Returns(getProgressionLayers(s))
  /\ currentChords' = IF InvalidTriadScale(s) THEN currentChords ELSE harmonizeTriads(s)
  /\ UNCHANGED <<scaleEngineVars, callVars, composerVars, lastHarmonized, keptScale, analysis>>

\* lines 1223-1260
GetCommonProgressions(s) ==
  /\ pc = "idle"
  /\ op' = "getCommonProgressions"
  /\ args' = <<s>>
  /\ ret' = Returns(getCommonProgressions(s))
  /\ currentChords' = IF InvalidTriadScale(s) THEN currentChords ELSE harmonizeTriads(s)
  /\ UNCHANGED <<scaleEngineVars, callVars, composerVars, lastHarmonized, keptScale, analysis>>

\* lines 1336-1360
GetSubstitutions(chord, s) ==
  /\ pc = "idle"
  /\ op' = "getSubstitutions"
  /\ args' = <<chord, s>>
  /\ ret' = Returns(getSubstitutions(chord, s))
  /\ currentChords' = IF InvalidTriadScale(s) THEN currentChords ELSE harmonizeTriads(s)
  /\ UNCHANGED <<scaleEngineVars, callVars, composerVars, lastHarmonized, keptScale, analysis>>

\* harmonize(scale, includeSevenths): its call of harmonizeTriads (line 92) stores the
\* triads in the engine (line 45) before the sevenths are built
Harmonize(s, includeSevenths) ==
  /\ pc = "idle"
  /\ op' = "harmonize"
  /\ args' = <<s, includeSevenths>>
  /\ ret' = harmonize(s, includeSevenths)
  /\ IF ~CallOutcome("harmonizeTriads", s).threw /\ ~InvalidTriadScale(s)
     THEN currentChords' = harmonizeTriads(s) /\ lastHarmonized' = s
     ELSE UNCHANGED <<currentChords, lastHarmonized>>
  /\ UNCHANGED <<scaleEngineVars, callVars, composerVars, keptScale, analysis>>

\* lines 1305-1313, called without a chord list
GetChordsContainingNote(note) ==
  /\ pc = "idle"
  /\ op' = "getChordsContainingNote"
  /\ args' = <<note>>
  /\ ret' = Returns(getChordsContainingNote(note, currentChords))
  /\ UNCHANGED <<currentChords, scaleEngineVars, callVars, composerVars, lastHarmonized, keptScale, analysis>>

\* generateProgression returns (or its TypeError reaches the caller); its locals are gone
Finish ==
  /\ pc \in {"done", "error"}
  /\ ret' = IF pc = "done" THEN Returns(Returned) ELSE Throws
  /\ pc' = "idle"
  /\ strategy' = Undefined
  /\ template' = 0
  /\ heap' = << >>
  /\ baseProgression' = << >>
  /\ progression' = << >>
  /\ forIdx' = 0
  /\ phrase' = 0
  /\ result' = << >>
  /\ UNCHANGED <<currentChords, scaleEngineVars, callVars, op, args, lastHarmonized, keptScale, analysis>>

\* analyzeProgression throws where it reads scale.root of a null scale (line 1104);
\* a chord without notes does not make it throw: countCommonTones returns 0 for a
\* missing note list (line 1086), and getChordFunction 'Unknown' for a missing degree
AnalysisThrows(prog, s) == IsNullScale(s)

\* analyzeProgression(progression, scale) on the array generateProgression returned,
\* the whole call in one step: the analysis object goes to the caller
AnalyzeProgression ==
  /\ pc = "done"
  /\ op = "generateProgression"
  /\ op' = "analyzeProgression"
  /\ ret' = IF AnalysisThrows(Returned, scale) THEN Throws
            ELSE Returns(analyzeProgression(Returned, scale))
  /\ UNCHANGED <<currentChords, scaleEngineVars, callVars, composerVars, args,
                 lastHarmonized, keptScale, analysis>>

\* analyzeProgression statement by statement, the analysis object on the heap
\* beside the chord objects of the progression.
\* Lines 1100-1106: the analysis object is created; reading scale.root throws
AnalyzeStart ==
  /\ pc = "done"
  /\ op = "generateProgression"
  /\ IF AnalysisThrows(Returned, scale)
     THEN /\ op' = "analyzeProgression"
          /\ ret' = Throws
          /\ UNCHANGED <<pc, heap, analysis>>
     ELSE /\ heap' = Append(heap, newAnalysis(Returned, scale))
          /\ analysis' = Len(heap) + 1
          /\ pc' = "analyze"
          /\ UNCHANGED <<op, ret>>
  /\ UNCHANGED <<currentChords, scaleEngineVars, callVars, strategy, template,
                 baseProgression, progression, forIdx, phrase, result, args,
                 lastHarmonized, keptScale>>

\* one call of the forEach callback that also stores the chord's function on the
\* chord object it analyzes
AnalyzeChordStoringFunction ==
  /\ pc = "analyze"
  /\ Len(heap[analysis].chords) < Len(result)
  /\ LET k == Len(heap[analysis].chords) + 1 IN
       heap' = [heap EXCEPT
                  ![analysis].chords = Append(@, chordAnalysis(Returned, k)),
                  ![result[k]].function = getChordFunction(heap[result[k]])]
  /\ UNCHANGED <<currentChords, scaleEngineVars, callVars, pc, strategy, template,
                 baseProgression, progression, forIdx, phrase, result, harnessVars>>

\* Lines 1109-1125: one call of the forEach callback, for the chord at the index
\* that follows the chords analyzed so far; analysis.chords.push(chordAnalysis)
AnalyzeChord ==
  /\ pc = "analyze"
  /\ Len(heap[analysis].chords) < Len(result)
  /\ LET k == Len(heap[analysis].chords) + 1 IN
       heap' = [heap EXCEPT ![analysis].chords = Append(@, chordAnalysis(Returned, k))]
  /\ UNCHANGED <<currentChords, scaleEngineVars, callVars, pc, strategy, template,
                 baseProgression, progression, forIdx, phrase, result, harnessVars>>

\* Lines 1128-1176: after the last chord the complexity and the features are
\* assigned to the analysis object, and it is returned
AnalyzeReturn ==
  /\ pc = "analyze"
  /\ Len(heap[analysis].chords) = Len(result)
  /\ heap' = [heap EXCEPT ![analysis] = finishedAnalysis(@, Returned)]
  /\ op' = "analyzeProgression"
  /\ ret' = Returns(heap'[analysis])
  /\ pc' = "done"
  /\ UNCHANGED <<currentChords, scaleEngineVars, callVars, strategy, template,
                 baseProgression, progression, forIdx, phrase, result, args,
                 lastHarmonized, keptScale, analysis>>

-----------------------------------------------------------------------------
(* Functions applied once to a drawn input, on a new engine *)

\* a scale object without a notes list
NoNotesScale ==
  [field \in DOMAIN generateScaleValue("C", "major") \ {"notes"} |->
     IF field = "type" THEN Undefined ELSE generateScaleValue("C", "major")[field]]

\* a scale object whose notes list is present and empty
EmptyNotesScale == [generateScaleValue("C", "major") EXCEPT !.notes = << >>]

\* a scale object without a root
NoRootScale == [generateScaleValue("C", "major") EXCEPT !.root = Undefined]

\* a scale object whose two notes harmonize to no chord
TwoNoteScale == [generateScaleValue("C", "major") EXCEPT !.notes = <<"C", "D">>]

NoteNames ==
  {NOTES[k] : k \in 1..Len(NOTES)} \cup {ALTERNATE_NAMES[k] : k \in DOMAIN ALTERNATE_NAMES}

CatalogScales == {generateScaleValue(root, key) : root \in NoteNames, key \in ScaleKeys}

MalformedScales == {NullScale, NoNotesScale, EmptyNotesScale, NoRootScale}

SevenNoteKeys == {key \in ScaleKeys : Len(SCALE_PATTERNS[key].intervals) = 7}

MaxSemitones == 30

\* [fifth-degree triad, tonic triad] and [fourth-degree triad, tonic triad]
CadenceOn(s, degree) == <<harmonizeTriads(s)[degree], harmonizeTriads(s)[1]>>

MaxFret == 12

FretboardTunings == {TUNINGS_standard, TUNINGS_halfStepDown, TUNINGS_openD}

LibInputs ==
  {<<"transposeNote", note, semitones>> :
      note \in NoteNames \cup {"H"}, semitones \in (0 - MaxSemitones)..MaxSemitones}
  \cup {<<f, s>> : f \in ScaleFunctions \cup {"getProgressionLayers"},
                    s \in CatalogScales \cup MalformedScales}
  \cup {<<"harmonize", s, includeSevenths>> :
           s \in CatalogScales \cup MalformedScales, includeSevenths \in BOOLEAN}
  \cup {<<"analyzeProgression", CadenceOn(generateScaleValue(root, key), degree),
          generateScaleValue(root, key)>> :
           root \in NoteNames, key \in SevenNoteKeys, degree \in {4, 5}}
  \cup {<<"generateScale", root, key>> : root \in NoteNames, key \in ScaleKeys}
  \cup {<<"getFretboardPositions", s, tuning, maxFret>> :
           s \in CatalogScales \cup MalformedScales, tuning \in FretboardTunings,
           maxFret \in (-1)..MaxFret}

InitLib ==
  /\ currentChords = << >>
  /\ currentRoot = "C"
  /\ currentScaleType = "major"
  /\ currentScale = 0
  /\ scaleObjects = NoScaleObjects
  /\ pc = "idle"
  /\ scale = NullScale
  /\ length = 0
  /\ complexity = Undefined
  /\ style = Undefined
  /\ layers = NoLayers
  /\ strategy = Undefined
  /\ template = 0
  /\ heap = << >>
  /\ baseProgression = << >>
  /\ progression = << >>
  /\ forIdx = 0
  /\ phrase = 0
  /\ result = << >>
  /\ op = "new"
  /\ args \in LibInputs
  /\ ret = [threw |-> FALSE, value |-> << >>]
  /\ lastHarmonized = NullScale
  /\ keptScale = NothingKept
  /\ analysis = 0

ApplyTransposeNote ==
  /\ op = "new"
  /\ args[1] = "transposeNote"
  /\ op' = "transposeNote"
  /\ ret' = Returns(transposeNote(args[2], args[3]))
  /\ UNCHANGED <<currentChords, scaleEngineVars, callVars, composerVars, args, lastHarmonized, keptScale, analysis>>

ApplyScaleFunction ==
  /\ op = "new"
  /\ args[1] \in ScaleFunctions
  /\ op' = args[1]
  /\ ret' = CallOutcome(args[1], args[2])
  /\ IF args[1] = "harmonizeTriads" /\ ~CallOutcome(args[1], args[2]).threw
        /\ ~InvalidTriadScale(args[2])
     THEN currentChords' = harmonizeTriads(args[2]) /\ lastHarmonized' = args[2]
     ELSE UNCHANGED <<currentChords, lastHarmonized>>
  /\ UNCHANGED <<scaleEngineVars, callVars, composerVars, args, keptScale, analysis>>

ApplyHarmonize ==
  /\ op = "new"
  /\ args[1] = "harmonize"
  /\ op' = "harmonize"
  /\ ret' = harmonize(args[2], args[3])
  /\ IF ~CallOutcome("harmonizeTriads", args[2]).threw /\ ~InvalidTriadScale(args[2])
     THEN currentChords' = harmonizeTriads(args[2]) /\ lastHarmonized' = args[2]
     ELSE UNCHANGED <<currentChords, lastHarmonized>>
  /\ UNCHANGED <<scaleEngineVars, callVars, composerVars, args, keptScale, analysis>>

ApplyGetProgressionLayers ==
  /\ op = "new"
  /\ args[1] = "getProgressionLayers"
  /\ op' = "getProgressionLayers"
  /\ ret' = Returns(getProgressionLayers(args[2]))
  /\ currentChords' = IF InvalidTriadScale(args[2]) THEN currentChords
                      ELSE harmonizeTriads(args[2])
  /\ UNCHANGED <<scaleEngineVars, callVars, composerVars, args, lastHarmonized, keptScale, analysis>>

ApplyAnalyzeProgression ==
  /\ op = "new"
  /\ args[1] = "analyzeProgression"
  /\ op' = "analyzeProgression"
  /\ ret' = IF IsNullScale(args[3]) THEN Throws
            ELSE Returns(analyzeProgression(args[2], args[3]))
  /\ UNCHANGED <<currentChords, scaleEngineVars, callVars, composerVars, args, lastHarmonized, keptScale, analysis>>

\* new ScaleEngine().generateScale(root, scaleType)
ApplyGenerateScale ==
  /\ op = "new"
  /\ args[1] = "generateScale"
  /\ generateScale(args[2], args[3], "generateScale", args)

\* what a caller of getFretboardPositions(scale, tuning, maxFret) observes:
\* lines 2618-2623, then the loops, which read scaleToUse.notes
FretboardOutcome(given, tuning, maxFret) ==
  LET scaleToUse == IF IsNullScale(given) THEN CurrentScale ELSE given IN
  IF IsNullScale(scaleToUse) THEN Returns(<< >>)
  ELSE IF NotesUnreadable(scaleToUse) /\ Len(tuning) > 0 /\ maxFret >= 0 THEN Throws
  ELSE Returns(getFretboardPositions(scaleToUse, tuning, maxFret))

\* new ScaleEngine().getFretboardPositions(scale, tuning, maxFret)
ApplyGetFretboardPositions ==
  /\ op = "new"
  /\ args[1] = "getFretboardPositions"
  /\ op' = "getFretboardPositions"
  /\ ret' = FretboardOutcome(args[2], args[3], args[4])
  /\ UNCHANGED <<currentChords, scaleEngineVars, callVars, composerVars, args, lastHarmonized, keptScale, analysis>>

NextLib ==
  \/ ApplyTransposeNote
  \/ ApplyScaleFunction
  \/ ApplyHarmonize
  \/ ApplyGetProgressionLayers
  \/ ApplyAnalyzeProgression
  \/ ApplyGenerateScale
  \/ ApplyGetFretboardPositions

SpecLib == InitLib /\ [][NextLib]_vars

-----------------------------------------------------------------------------
(* templates resolved against the layers of a scale *)

\* the degrees of every template of the static catalog (lines 441-602)
CatalogDegrees ==
  UNION {{getStyleTemplates[st].templates[k].degrees :
             k \in 1..Len(getStyleTemplates[st].templates)} : st \in StyleKeys}

TemplateInputs ==
  {<<"templateToChords", degrees, s>> : degrees \in CatalogDegrees, s \in CatalogScales}

InitTemplates ==
  /\ currentChords = << >>
  /\ currentRoot = "C"
  /\ currentScaleType = "major"
  /\ currentScale = 0
  /\ scaleObjects = NoScaleObjects
  /\ pc = "idle"
  /\ scale = NullScale
  /\ length = 0
  /\ complexity = Undefined
  /\ style = Undefined
  /\ layers = NoLayers
  /\ strategy = Undefined
  /\ template = 0
  /\ heap = << >>
  /\ baseProgression = << >>
  /\ progression = << >>
  /\ forIdx = 0
  /\ phrase = 0
  /\ result = << >>
  /\ op = "new"
  /\ args \in TemplateInputs
  /\ ret = [threw |-> FALSE, value |-> << >>]
  /\ lastHarmonized = NullScale
  /\ keptScale = NothingKept
  /\ analysis = 0

\* engine.templateToChords(degrees, engine.getProgressionLayers(scale), scale)
ApplyTemplateToChords ==
  /\ op = "new"
  /\ args[1] = "templateToChords"
  /\ op' = "templateToChords"
  /\ ret' = Returns(templateToChords(args[2], getProgressionLayers(args[3])))
  /\ currentChords' = IF InvalidTriadScale(args[3]) THEN currentChords
                      ELSE harmonizeTriads(args[3])
  /\ UNCHANGED <<scaleEngineVars, callVars, composerVars, args, lastHarmonized, keptScale, analysis>>

NextTemplates == ApplyTemplateToChords

SpecTemplates == InitTemplates /\ [][NextTemplates]_vars

-----------------------------------------------------------------------------
(* The Progression Composer on catalog scales *)

MaxLength == 5

\* the three complexities, and a name that the lookup objects inherit
Complexities == {"simple", "moderate", "complex", "constructor"}

\* every style key, one that is not a key, and a name that the templates object inherits
Styles == StyleKeys \cup {"polka", "toString"}

\* scales of 7, 5, 6 and 8 notes
ComposerKeys == {"major", "minorPentatonic", "blues", "diminished"}

Call ==
  \E key \in ComposerKeys, len \in 0..MaxLength, cx \in Complexities, st \in Styles :
    GenerateProgression(generateScaleValue("C", key), len, cx, st)

Next == Call \/ Compose

Spec == Init /\ [][Next]_vars

-----------------------------------------------------------------------------
(* generateProgression(scale, 8, 'simple', 'pop') *)

PopScales ==
  {generateScaleValue("C", "major"), generateScaleValue("A", "naturalMinor"),
   generateScaleValue("Bb", "minorPentatonic"), generateScaleValue("E", "blues")}

CallPop == \E s \in PopScales : GenerateProgression(s, 8, "simple", "pop")

NextPop == CallPop \/ Compose

SpecPop == Init /\ [][NextPop]_vars

-----------------------------------------------------------------------------
(* generateProgression on any scale argument; a call that has started keeps running *)

AnyScales == {NullScale, TwoNoteScale, generateScaleValue("C", "major")}

MaxAnyLength == 4

CallAny ==
  \E s \in AnyScales, len \in 0..MaxAnyLength : GenerateProgression(s, len, "simple", "pop")

NextAny == CallAny \/ Compose

SpecAny == Init /\ [][NextAny]_vars /\ WF_vars(Compose)

-----------------------------------------------------------------------------
(* A caller that analyzes the progression generateProgression returned *)

MaxAnalyzedLength == 4

\* a 7-note and a 5-note scale
AnalyzedKeys == {"major", "minorPentatonic"}

CallAnalyzed ==
  \E key \in AnalyzedKeys, len \in 0..MaxAnalyzedLength, cx \in Complexities,
     st \in StyleKeys :
    GenerateProgression(generateScaleValue("C", key), len, cx, st)

NextAnalyzed == CallAnalyzed \/ Compose \/ AnalyzeProgression

SpecAnalyzed == Init /\ [][NextAnalyzed]_vars

\* the same calls, and a caller whose analyzeProgression call runs statement by statement
NextAnalysis == CallAnalyzed \/ Compose \/ AnalyzeStart \/ AnalyzeChord \/ AnalyzeReturn

SpecAnalysis == Init /\ [][NextAnalysis]_vars

-----------------------------------------------------------------------------
(* generateProgression in sharp and flat keys, and a caller that analyzes the result *)

\* a root spelled with sharps and two roots spelled with flats
KeyRoots == {"G", "F", "Bb"}

KeyTypes == {"major", "locrian"}

MaxKeyLength == 5

CallKeys ==
  \E root \in KeyRoots, key \in KeyTypes, len \in 0..MaxKeyLength, cx \in Complexities,
     st \in StyleKeys :
    GenerateProgression(generateScaleValue(root, key), len, cx, st)

NextKeys == CallKeys \/ Compose \/ AnalyzeProgression

SpecKeys == Init /\ [][NextKeys]_vars

-----------------------------------------------------------------------------
(* The ScaleEngine, called again and again *)

\* four note names and a string that is no note name
ScaleRoots == {"C", "E", "F#", "Bb", "H"}

\* three catalog keys, a string that is no key, and a name that SCALE_PATTERNS inherits
ScaleTypes == {"major", "minorPentatonic", "diminished", "klingon", "toString"}

NextScale ==
  \/ \E root \in ScaleRoots, scaleType \in ScaleTypes : GenerateScale(root, scaleType)
  \/ \E newRoot \in ScaleRoots : Transpose(newRoot)
  \/ \E newScaleType \in ScaleTypes : ChangeScaleType(newScaleType)

SpecScale == Init /\ [][NextScale]_vars

-----------------------------------------------------------------------------
(* The ScaleEngine with all its scale-replacing operations, and a caller that
   keeps one generated Scale *)

KeptRoots == {"C", "Bb", "H"}

KeptTypes == {"major", "naturalMinor", "klingon"}

\* the scale arguments: none (the current scale), a major and a five-note scale
GivenScales ==
  {NullScale, generateScaleValue("E", "major"), generateScaleValue("A", "minorPentatonic")}

ModeNumbers == {0, 2, 6, 8}

NextKept ==
  \/ \E root \in KeptRoots, scaleType \in KeptTypes : GenerateScale(root, scaleType)
  \/ \E newRoot \in KeptRoots : Transpose(newRoot)
  \/ \E newScaleType \in KeptTypes : ChangeScaleType(newScaleType)
  \/ \E given \in GivenScales : GetRelativeScale(given)
  \/ \E given \in GivenScales : GetParallelScale(given)
  \/ \E modeNumber \in ModeNumbers, root \in {Null, "F#"} : GetMode(modeNumber, root)
  \/ \E given \in GivenScales : GetAllModes(given)
  \/ KeepScale

SpecKept == Init /\ [][NextKept]_vars

-----------------------------------------------------------------------------
(* One ChordEngine, called again and again *)

EngineScales == {generateScaleValue("C", "major"), generateScaleValue("D", "major")}

\* the tonic and the dominant triad of each
EngineChords == UNION {{harmonizeTriads(s)[k] : k \in {1, 5}} : s \in EngineScales}

NextEngine ==
  \/ \E s \in EngineScales : CallScaleFunction("harmonizeTriads", s)
  \/ \E s \in EngineScales, includeSevenths \in BOOLEAN : Harmonize(s, includeSevenths)
  \/ \E s \in EngineScales : GetProgressionLayers(s)
  \/ \E s \in EngineScales : GetCommonProgressions(s)
  \/ \E s \in EngineScales, chord \in EngineChords : GetSubstitutions(chord, s)
  \/ \E note \in {"C", "C#"} : GetChordsContainingNote(note)
  \/ \E s \in EngineScales : GenerateProgression(s, 4, "simple", "pop")
  \/ Compose
  \/ Finish

SpecEngine == Init /\ [][NextEngine]_vars

-----------------------------------------------------------------------------
(* Properties *)

\* C1: for every catalog scale (5 to 8 notes), every length, every complexity and every
\* style key (or a name that is no key and stands for pop), generateProgression returns
\* a progression of exactly `length` chords, whichever strategy the draw selects and
\* whatever the later draws are.
C1_ExactLength ==
  ~TemplatesUnreadable(style) =>
    /\ pc # "error"
    /\ pc = "done" => Len(Returned) = length

\* a template tiled and cut short on a five-note scale
C1_Witness ==
  /\ pc = "done"
  /\ strategy = "template"
  /\ Len(scale.notes) = 5
  /\ length = MaxLength
  /\ Len(baseProgression) < length
  /\ Len(Returned) = length

\* the tonic chord of the scale of the call: the diatonic triad on scale degree 1
IsTonicChord(chord) ==
  /\ chord.type = "triad"
  /\ chord.scaleDegree = 1
  /\ chord.root = scale.notes[1]

\* the first degree of the chosen template
FirstDegree == StyleConfig(style).templates[template].degrees[1]

\* C2 (as stated): generateProgression(scale, 8, 'simple', 'pop') always returns a
\* progression whose first chord is the tonic chord of the scale, for every outcome
\* of the draws, the template strategy and every pop template included.
C2_FirstIsTonic ==
  (pc = "done" /\ length = 8 /\ style = "pop" /\ complexity = "simple")
    => IsTonicChord(Returned[1])

\* the first chord the chosen template resolves to: the chord of its first degree,
\* or, where the scale has no chord of that degree and templateToChords skips it,
\* the chord of its second degree
FirstTemplateChord ==
  LET degrees == StyleConfig(style).templates[template].degrees
      first == IF InRange(layers.mainChords, NumberOf(degrees[1])) THEN degrees[1]
               ELSE degrees[2] IN
  layers.mainChords[NumberOf(first) + 1]

\* chord is the secondary dominant put in the place of target
IsSecondaryDominantOf(chord, target) ==
  /\ chord.layer = "secondary"
  /\ chord.type = "secondary-dominant"
  /\ chord.resolvesTo = target.root

\* C2 (amended): the first chord of generateProgression(scale, 8, 'simple', 'pop') is the
\* tonic chord exactly when the algorithmic strategy ran or the chosen pop template
\* starts on degree 0; with a template that starts on degree 5 the first chord is the
\* first diatonic chord the template resolves to in the scale (the chord on the sixth
\* note where the scale has one, the chord of the template's second degree where it
\* has none), or the secondary dominant that resolves to that chord.
C2_FirstIsTonicUnlessTemplateStartsElsewhere ==
  (pc = "done" /\ length = 8 /\ style = "pop" /\ complexity = "simple")
    => /\ IsTonicChord(Returned[1]) <=> (strategy = "algorithmic" \/ FirstDegree = "0")
       /\ (strategy = "template" /\ FirstDegree = "5")
            => /\ FirstTemplateChord.root
                    = scale.notes[IF Len(scale.notes) >= 6 THEN 6
                                  ELSE NumberOf(StyleConfig(style).templates[template].degrees[2]) + 1]
               /\ \/ /\ Returned[1].layer = "main"
                     /\ Returned[1].type = "triad"
                     /\ Returned[1].root = FirstTemplateChord.root
                     /\ Returned[1].symbol = FirstTemplateChord.symbol
                     /\ Returned[1].scaleDegree = FirstTemplateChord.scaleDegree
                  \/ IsSecondaryDominantOf(Returned[1], FirstTemplateChord)

\* a pop template that starts on the sixth degree was tiled to 8 chords in C major,
\* and its first chord was replaced by the secondary dominant of A minor
C2_Witness ==
  /\ pc = "done"
  /\ strategy = "template"
  /\ length = 8
  /\ style = "pop"
  /\ complexity = "simple"
  /\ FirstDegree = "5"
  /\ Len(Returned) = 8
  /\ FirstTemplateChord.symbol = "Am"
  /\ IsSecondaryDominantOf(Returned[1], FirstTemplateChord)
  /\ Returned[1].symbol = "E7"
  /\ ~IsTonicChord(Returned[1])

\* C3: generateProgression always terminates, for a catalog scale, a null scale and a
\* scale that harmonizes to no diatonic chord: the tiling loop and the phrase loop
\* finish (by a return or by a thrown error) after finitely many steps.
C3_Terminates == (pc # "idle") ~> (pc \in {"done", "error"})

\* the scale lacks what the function reads first: the notes list (harmonizers and
\* secondary layers) or the root (modal interchange, Neapolitan)
LacksInput(f, s) ==
  \/ s = NullScale
  \/ f \in {"getModalInterchangeChords", "getNeapolitanChords"} /\ s = NoRootScale
  \/ f \notin {"getModalInterchangeChords", "getNeapolitanChords"} /\ s = NoNotesScale

\* C4 (as stated): the harmonizers and the extended-harmony generators, called with a
\* null or malformed scale, fail with an error outcome and never return a normal value.
C4_FailsFast ==
  (op \in ScaleFunctions /\ LacksInput(op, args[2])) => ret.threw

\* C4 (amended): harmonizeTriads, harmonizeSeventhChords, getSecondaryDominants,
\* getSecondaryDiminished (scale null or without notes) and getModalInterchangeChords,
\* getNeapolitanChords (scale null or without root) return the empty list and do not throw.
C4_ReturnsEmptyList ==
  (op \in ScaleFunctions /\ LacksInput(op, args[2]))
    => (~ret.threw /\ ret.value = << >>)

\* getSecondaryDominants(null) has returned
C4_Witness ==
  /\ op = "getSecondaryDominants"
  /\ args[2] = NullScale
  /\ ret = Returns(<< >>)

\* C5: generateScale returns null and leaves the current root, scale type and scale
\* unchanged when the key is not in the catalog or the root is no note name; it never
\* returns or stores a scale that contains null notes.
C5_AbsentOnUnknownInput ==
  [][(op' = "generateScale" /\ (args'[2] \notin ScaleKeys \/ args'[1] \notin NoteNames))
       => /\ ~ret'.threw
          /\ IsNullScale(ret'.value)
          /\ UNCHANGED scaleEngineVars
          /\ \A k \in 1..Len(CurrentScale'.notes) : CurrentScale'.notes[k] # Null]_vars

\* C6: for every note name and every integer number of semitones, transposeNote returns
\* a note whose index is (index of the root + semitones) mod 12, wrapped into 0..11.
C6_TransposeWraps ==
  (op = "transposeNote" /\ args[2] \in NoteNames)
    => /\ ret.value \in NoteNames
       /\ getNoteIndex(ret.value) = (getNoteIndex(args[2]) + args[3]) % 12

\* the label starts with the given characters and names a degree after them
LabelledOver(chord, prefix) ==
  /\ chord.degree \in DOMAIN Chars
  /\ StartsWith(Chars[chord.degree], prefix)
  /\ Len(Chars[chord.degree]) > Len(prefix)

\* C7: for every catalog scale the secondaryDominants and secondaryDiminished lists of
\* getProgressionLayers are each empty (fewer than 7 notes) or hold exactly 6 chords with
\* defined V/<degree> and vii{deg}/<degree> labels; modalInterchange holds bIII, bVI, iv,
\* bVII, ii{deg} in that order and neapolitan holds bII alone.
C7_LayerSizes ==
  (op = "getProgressionLayers" /\ args[2] \in CatalogScales) =>
    LET ls == ret.value
        n == Len(args[2].notes) IN
    /\ Len(ls.secondaryDominants) = (IF n < 7 THEN 0 ELSE 6)
    /\ Len(ls.secondaryDiminished) = (IF n < 7 THEN 0 ELSE 6)
    /\ \A k \in 1..Len(ls.secondaryDominants) :
         LabelledOver(ls.secondaryDominants[k], <<"V", "/">>)
    /\ \A k \in 1..Len(ls.secondaryDiminished) :
         LabelledOver(ls.secondaryDiminished[k], <<"v", "i", "i", "{deg}", "/">>)
    /\ [k \in 1..Len(ls.modalInterchange) |-> ls.modalInterchange[k].degree]
         = <<"bIII", "bVI", "iv", "bVII", "ii{deg}">>
    /\ [k \in 1..Len(ls.neapolitan) |-> ls.neapolitan[k].degree] = <<"bII">>

PerfectAuthenticCadence == "Perfect authentic cadence (V-I)"

HasFeature(analyzed, feature) ==
  \E k \in 1..Len(analyzed.features) : analyzed.features[k] = feature

\* the progression analysed is [fifth-degree triad, tonic triad] of the scale
IsDominantTonic == op = "analyzeProgression" /\ args[2] = CadenceOn(args[3], 5)

\* C8 (as stated): for every root and every 7-note key, major and minor alike,
\* analyzeProgression on [fifth-degree triad, tonic triad] reports the feature
\* "Perfect authentic cadence (V-I)".
C8_CadenceInEveryKey ==
  IsDominantTonic => HasFeature(ret.value, PerfectAuthenticCadence)

\* C8 (amended): for every root and every 7-note key, analyzeProgression on
\* [fifth-degree triad, tonic triad] reports "Perfect authentic cadence (V-I)" exactly
\* when neither triad is minor or diminished, so that their labels are the upper-case
\* V and I: in the major keys, not in the minor ones.
C8_CadenceWhereLabelsAreUpperCase ==
  IsDominantTonic =>
    (HasFeature(ret.value, PerfectAuthenticCadence)
       <=> \A k \in {1, 2} : args[2][k].quality \notin {"minor", "diminished"})

\* a minor key analysed: no cadence feature
C8_Witness ==
  /\ IsDominantTonic
  /\ args[3].type = "naturalMinor"
  /\ args[2][1].degree = "v"
  /\ args[2][2].degree = "i"
  /\ ~HasFeature(ret.value, PerfectAuthenticCadence)

\* C9: after harmonizeTriads(S), getChordsContainingNote(note) without a chord list
\* searches the triads of S, whatever calls of getProgressionLayers, generateProgression,
\* getCommonProgressions and getSubstitutions for another scale were made in between.
C9_SearchesHarmonizedScale ==
  (op = "getChordsContainingNote" /\ ~IsNullScale(lastHarmonized))
    => ret.value = getChordsContainingNote(args[1], harmonizeTriads(lastHarmonized))

MajorSeventhQualities ==
  <<"major7", "minor7", "minor7", "major7", "dominant7", "minor7", "halfDiminished7">>

\* the qualities of a major scale's seventh chords and their stacking in thirds
SeventhsOfMajor(s, chords) ==
  /\ [k \in 1..Len(chords) |-> chords[k].quality] = MajorSeventhQualities
  /\ \A k \in 1..Len(chords) :
       chords[k].notes = <<s.notes[k], s.notes[((k + 1) % 7) + 1],
                           s.notes[((k + 3) % 7) + 1], s.notes[((k + 5) % 7) + 1]>>

Symbols(chords) == [k \in 1..Len(chords) |-> chords[k].symbol]

IsSeventhsOfMajor ==
  op = "harmonizeSeventhChords" /\ args[2] \in CatalogScales /\ args[2].type = "major"

\* C10 (as stated): harmonizeSeventhChords on C major yields Cmaj7, Dm7, Em7, Fmaj7, G7,
\* Am7, Bm7b5 with the qualities major7, minor7, minor7, major7, dominant7, minor7,
\* halfDiminished7, each chord stacked in thirds; the same qualities on every root.
C10_SeventhsWithAsciiFlat ==
  IsSeventhsOfMajor =>
    /\ SeventhsOfMajor(args[2], ret.value)
    /\ args[2].root = "C" =>
         Symbols(ret.value) = <<"Cmaj7", "Dm7", "Em7", "Fmaj7", "G7", "Am7", "Bm7b5">>

\* C10 (amended): the same, the seventh symbol being Bm7{flat}5, written with the flat
\* sign U+266D and not with the letter b.
C10_SeventhsWithFlatSign ==
  IsSeventhsOfMajor =>
    /\ SeventhsOfMajor(args[2], ret.value)
    /\ args[2].root = "C" =>
         Symbols(ret.value) = <<"Cmaj7", "Dm7", "Em7", "Fmaj7", "G7", "Am7", "Bm7{flat}5">>

\* C major harmonized in sevenths
C10_Witness ==
  /\ IsSeventhsOfMajor
  /\ args[2].root = "C"
  /\ Len(ret.value) = 7
  /\ ret.value[7].quality = "halfDiminished7"
  /\ ret.value[7].symbol = "Bm7{flat}5"

-----------------------------------------------------------------------------
(* C11: the diatonic triads of every catalog scale *)

\* the pitch class of a note name, 0..11 (C = 0)
PitchClass(note) == getNoteIndex(note)

\* the interval from note a up to note b, in semitones
SemitonesUp(a, b) == (PitchClass(b) - PitchClass(a)) % 12

\* the quality the interval pair (root->third, root->fifth) stands for
TriadQualityOf(third, fifth) ==
  CASE <<third, fifth>> = <<4, 7>> -> "major"
    [] <<third, fifth>> = <<3, 7>> -> "minor"
    [] <<third, fifth>> = <<3, 6>> -> "diminished"
    [] <<third, fifth>> = <<4, 8>> -> "augmented"
    [] OTHER -> "unknown"

MajorTriadQualities ==
  <<"major", "minor", "minor", "major", "major", "minor", "diminished">>

\* chords are the triads of scale s, stacked in thirds and classified by intervals
TriadsOf(s, chords) ==
  LET n == Len(s.notes) IN
  /\ n \in {5, 6, 7, 8}
  /\ Len(chords) = n
  /\ \A k \in 1..n :
       LET i == k - 1
           stacked == <<s.notes[i + 1], s.notes[((i + 2) % n) + 1], s.notes[((i + 4) % n) + 1]>>
           quality == TriadQualityOf(SemitonesUp(stacked[1], stacked[2]),
                                     SemitonesUp(stacked[1], stacked[3])) IN
       /\ chords[k].notes = stacked
       /\ chords[k].quality = quality
       /\ quality = "unknown" => chords[k].symbol = s.notes[k]
  /\ s.type = "major" => [k \in 1..n |-> chords[k].quality] = MajorTriadQualities

\* C11: for every catalog scale of n notes on every root, harmonizeTriads returns n
\* chord records, record i with the notes notes[i], notes[(i+2) mod n], notes[(i+4) mod n]
\* and the quality of its interval pair ((4,7) major, (3,7) minor, (3,6) diminished,
\* (4,8) augmented, else unknown with the bare root name as symbol); a major scale
\* gives major, minor, minor, major, major, minor, diminished.
C11_TriadsOfEveryCatalogScale ==
  (op = "harmonizeTriads" /\ args[2] \in CatalogScales) =>
    ~ret.threw /\ TriadsOf(args[2], ret.value)

\* a five-note catalog scale harmonized: five triads, one of them of unknown quality
\* with the bare root name as symbol
C11_Witness ==
  /\ op = "harmonizeTriads"
  /\ args[2] \in CatalogScales
  /\ Len(ret.value) = 5
  /\ \E k \in 1..5 : ret.value[k].quality = "unknown" /\ ret.value[k].symbol = args[2].notes[k]

-----------------------------------------------------------------------------
(* C12: the notes of a generated scale *)

SharpNames == {"C#", "D#", "F#", "G#", "A#"}

FlatNames == {"Db", "Eb", "Gb", "Ab", "Bb"}

FlatRoots == {"F", "Bb", "Eb", "Ab", "Db", "Gb"}

\* s is the scale of the catalog key on root: the pattern's pitch classes, spelled
\* with flats for a flat root and with sharps for any other root
IsScaleOf(s, root, key) ==
  LET intervals == SCALE_PATTERNS[key].intervals
      n == Len(intervals) IN
  /\ ~IsNullScale(s)
  /\ Len(s.notes) = n
  /\ \A i \in 1..n : /\ s.notes[i] \in NoteNames
                     /\ PitchClass(s.notes[i]) = (PitchClass(root) + intervals[i]) % 12
  /\ \A i, j \in 1..n : i # j => PitchClass(s.notes[i]) # PitchClass(s.notes[j])
  /\ s.notes[1] = root
  /\ \A i \in 1..n : IF root \in FlatRoots THEN s.notes[i] \notin SharpNames
                                            ELSE s.notes[i] \notin FlatNames

\* C12: for every note name (sharp or flat) and every catalog key, generateScale
\* returns a scale with as many notes as the pattern has intervals, the i-th of pitch
\* class (index of the root + intervals[i]) mod 12, all distinct, the first the root,
\* spelled with flats exactly for the roots F, Bb, Eb, Ab, Db, Gb; C major is
\* C D E F G A B and A natural minor is A B C D E F G.
C12_GeneratedScaleNotes ==
  (op = "generateScale" /\ args[2] \in NoteNames /\ args[3] \in ScaleKeys) =>
    /\ ~ret.threw
    /\ IsScaleOf(ret.value, args[2], args[3])
    /\ (args[2] = "C" /\ args[3] = "major")
         => ret.value.notes = <<"C", "D", "E", "F", "G", "A", "B">>
    /\ (args[2] = "A" /\ args[3] = "naturalMinor")
         => ret.value.notes = <<"A", "B", "C", "D", "E", "F", "G">>

\* F major was generated: its fourth note is spelled Bb
C12_Witness ==
  /\ op = "generateScale"
  /\ args[2] = "F"
  /\ args[3] = "major"
  /\ ret.value.notes = <<"F", "G", "A", "Bb", "C", "D", "E">>
  /\ CurrentScale = ret.value

-----------------------------------------------------------------------------
(* C13: secondary dominants and secondary diminished chords of 7-note scales *)

SevenNoteScales == {s \in CatalogScales : Len(s.notes) = 7}

\* chord stands `up` semitones above target, is stacked by offsets, and resolves to target
BuiltOn(chord, target, up, offsets, quality) ==
  /\ chord.resolvesTo = target
  /\ chord.root \in NoteNames
  /\ PitchClass(chord.root) = (PitchClass(target) + up) % 12
  /\ Len(chord.notes) = 4
  /\ chord.notes[1] = chord.root
  /\ \A j \in 1..4 : /\ chord.notes[j] \in NoteNames
                     /\ PitchClass(chord.notes[j]) = (PitchClass(chord.root) + offsets[j]) % 12
  /\ chord.quality = quality

\* chords holds one chord per non-tonic note of s, in scale order
OnePerNonTonicNote(s, chords, up, offsets, quality) ==
  /\ Len(chords) = 6
  /\ \A k \in 2..7 : BuiltOn(chords[k - 1], s.notes[k], up, offsets, quality)

\* C13: for every 7-note scale and each non-tonic note T, the secondary dominant for T
\* has root transpose(T, 7), notes root, +4, +7, +10, quality dominant7 and resolvesTo T;
\* the secondary diminished for T has root transpose(T, 11), notes root, +3, +6, +9,
\* quality diminished7 and resolvesTo T.  In C major the secondary dominant that
\* resolves to D is A7 with the notes A, C#, E, G.
C13_SecondaryChords ==
  /\ (op = "getSecondaryDominants" /\ args[2] \in SevenNoteScales) =>
       /\ ~ret.threw
       /\ OnePerNonTonicNote(args[2], ret.value, 7, <<0, 4, 7, 10>>, "dominant7")
       /\ (args[2].root = "C" /\ args[2].type = "major") =>
            \E k \in 1..6 : /\ ret.value[k].resolvesTo = "D"
                            /\ ret.value[k].symbol = "A7"
                            /\ ret.value[k].notes = <<"A", "C#", "E", "G">>
  /\ (op = "getSecondaryDiminished" /\ args[2] \in SevenNoteScales) =>
       /\ ~ret.threw
       /\ OnePerNonTonicNote(args[2], ret.value, 11, <<0, 3, 6, 9>>, "diminished7")

\* the secondary dominants of C major were built: the first is A7, resolving to D
C13_Witness ==
  /\ op = "getSecondaryDominants"
  /\ args[2] = generateScaleValue("C", "major")
  /\ Len(ret.value) = 6
  /\ ret.value[1].symbol = "A7"
  /\ ret.value[1].resolvesTo = "D"

-----------------------------------------------------------------------------
(* C14: the fretboard positions of a scale *)

\* the pitch class sounding at fret f of a string tuned to open
PitchAtFret(open, f) == (PitchClass(open) + f) % 12

\* the (string, fret) pairs, frets 0..maxFret, that sound a pitch class of scale s
SoundingInScale(s, tuning, maxFret) ==
  {<<str, f>> \in (1..Len(tuning)) \X (0..maxFret) :
     \E i \in 1..Len(s.notes) : PitchClass(s.notes[i]) = PitchAtFret(tuning[str], f)}

\* positions holds one position for each such pair and no other, each with the degree
\* and interval of its scale note and isRoot set exactly on the root's pitch class
IsFretboardOf(positions, s, tuning, maxFret) ==
  /\ {<<positions[k].string, positions[k].fret>> : k \in 1..Len(positions)}
       = SoundingInScale(s, tuning, maxFret)
  /\ Len(positions) = Cardinality(SoundingInScale(s, tuning, maxFret))
  /\ \A k \in 1..Len(positions) :
       LET sounding == PitchAtFret(tuning[positions[k].string], positions[k].fret) IN
       /\ \E i \in 1..Len(s.notes) :
            /\ PitchClass(s.notes[i]) = sounding
            /\ positions[k].degree = s.degrees[i]
            /\ positions[k].interval = s.intervals[i]
       /\ positions[k].isRoot <=> (sounding = PitchClass(s.root))

\* the position at (str, f), which must be present, has isRoot = root
PresentWithRoot(positions, str, f, root) ==
  \E k \in 1..Len(positions) :
    positions[k].string = str /\ positions[k].fret = f /\ positions[k].isRoot = root

\* C14: for every scale, tuning and maxFret, getFretboardPositions emits a position for
\* (string, fret), 0 <= fret <= maxFret, exactly when the pitch class of the open string
\* raised by fret semitones is one of the scale's; the position carries that scale note's
\* degree and interval, and isRoot is true exactly on the pitch class of the scale root.
\* In standard tuning and C major, (6, 3) is present with isRoot false and (6, 8) with
\* isRoot true.
C14_FretboardPositions ==
  (op = "getFretboardPositions" /\ args[2] \in CatalogScales) =>
    /\ ~ret.threw
    /\ IsFretboardOf(ret.value, args[2], args[3], args[4])
    /\ (args[2] = generateScaleValue("C", "major") /\ args[3] = TUNINGS_standard) =>
         /\ args[4] >= 3 => PresentWithRoot(ret.value, 6, 3, FALSE)
         /\ args[4] >= 8 => PresentWithRoot(ret.value, 6, 8, TRUE)

\* the positions of C major in standard tuning up to fret 12 were computed
C14_Witness ==
  /\ op = "getFretboardPositions"
  /\ args[2] = generateScaleValue("C", "major")
  /\ args[3] = TUNINGS_standard
  /\ args[4] = 12
  /\ PresentWithRoot(ret.value, 6, 3, FALSE)
  /\ PresentWithRoot(ret.value, 6, 8, TRUE)

-----------------------------------------------------------------------------
(* C15: generateScale depends on its arguments only *)

\* C15: two generateScale calls with the same (root, scaleType) return deep-equal
\* Scale objects, whatever ScaleEngine operations (generateScale with other arguments,
\* transpose, changeScaleType, getRelativeScale, getParallelScale, getMode,
\* getAllModes) ran between them: after the later call, the object it returned equals
\* the object the earlier call returned as that object is now, and that object still
\* holds what it held when it was returned.
C15_GenerateScaleIsRepeatable ==
  (op = "generateScale" /\ keptScale # NothingKept /\ args = keptScale.args)
    => /\ ret.value = ScaleAt(scaleObjects, keptScale.ref)
       /\ ret.value = keptScale.value

\* C major was generated and kept, and C major was generated again: the engine's
\* current Scale, which the later call returned, is another object than the kept one
C15_Witness ==
  /\ op = "generateScale"
  /\ keptScale.args = <<"C", "major">>
  /\ args = keptScale.args
  /\ ~IsNullScale(ret.value)
  /\ CurrentScale = ret.value
  /\ keptScale.ref # 0
  /\ currentScale # keptScale.ref
  /\ scaleObjects[keptScale.ref].root = "C"
  /\ scaleObjects[keptScale.ref].type = "major"

-----------------------------------------------------------------------------
(* C16: analyzeProgression is read-only *)

\* C16: analyzeProgression leaves its progression as it was: every statement of the
\* call, from the creation of the analysis object to its return, leaves the array with
\* the same length and the same chord objects in the same order, and leaves every
\* field of every chord object of the array as it was, none added, removed or changed.
C16_AnalysisIsReadOnly ==
  [][(AnalyzeStart \/ AnalyzeChord \/ AnalyzeReturn) =>
       /\ Len(result') = Len(result)
       /\ result' = result
       /\ \A k \in 1..Len(result) : heap'[result[k]] = heap[result[k]]]_vars

\* a progression of three chords with a chromatic chord that carries a resolution hint
\* was analyzed statement by statement: the analysis object that was built beside the
\* chord objects holds the three chord analyses and is the analysis of the progression
C16_Witness ==
  /\ op = "analyzeProgression"
  /\ pc = "done"
  /\ ~ret.threw
  /\ analysis = Len(heap)
  /\ \A k \in 1..Len(result) : result[k] # analysis
  /\ ret.value = heap[analysis]
  /\ ret.value = analyzeProgression(Returned, scale)
  /\ Len(ret.value.chords) = 3
  /\ Len(result) = 3
  /\ \E k \in 1..3 : heap[result[k]].layer # "main"
                       /\ heap[result[k]].expectsResolution # Undefined

-----------------------------------------------------------------------------
(* C17: the secondary dominant the template strategy inserts *)

\* position k of the returned progression holds a secondary dominant that
\* applyComplexityVariation made for a template chord
InsertedAt(k) == heap[result[k]].layer = "secondary" /\ heap[result[k]].resolvesToNext # 0

\* the template chord the secondary dominant at position k was made for
TemplateChordOf(k) == heap[heap[result[k]].resolvesToNext]

\* C17: in the template strategy, a secondary dominant inserted for a template chord C
\* stands before C: the chord right after it in the returned progression is C, unless
\* the secondary dominant is the last chord.
C17_InsertedDominantPrecedesItsChord ==
  (pc = "done" /\ strategy = "template") =>
    \A k \in 1..(Len(result) - 1) :
      InsertedAt(k) => heap[result[k + 1]].root = TemplateChordOf(k).root

-----------------------------------------------------------------------------
(* C18: chromatic chords of the algorithmic strategy resolve at once *)

NeedsResolution(chord) == chord.type \in {"secondary-dominant", "secondary-diminished"}

\* chord is the diatonic main-layer chord on the note root
IsDiatonicOn(chord, root) ==
  /\ chord.layer = "main"
  /\ chord.root = root
  /\ \E k \in 1..Len(layers.mainChords) : chord = WithLayer(layers.mainChords[k], "main")

\* C18: in every progression the algorithmic strategy returns, a secondary-dominant or
\* secondary-diminished chord is immediately followed by the diatonic main-layer chord
\* on its resolvesTo note, and is never the last chord.
C18_AlgorithmicResolvesAtOnce ==
  (pc = "done" /\ strategy = "algorithmic") =>
    \A k \in 1..Len(result) :
      NeedsResolution(heap[result[k]]) =>
        /\ k < Len(result)
        /\ IsDiatonicOn(heap[result[k + 1]], heap[result[k]].resolvesTo)

\* the algorithmic strategy returned a progression with a secondary dominant in it,
\* followed by the chord it resolves to
C18_Witness ==
  /\ pc = "done"
  /\ strategy = "algorithmic"
  /\ \E k \in 1..(Len(result) - 1) :
       /\ heap[result[k]].type = "secondary-dominant"
       /\ heap[result[k + 1]].root = heap[result[k]].resolvesTo

-----------------------------------------------------------------------------
(* C19: the penultimate chord of the algorithmic strategy *)

\* the diatonic chord of 0-based index i, as the main layer holds it
MainChord(i) == WithLayer(layers.mainChords[i + 1], "main")

\* the Neapolitan chord bII
NeapolitanChord == WithLayer(layers.neapolitan[1], "neapolitan")

\* the approach chord the style's preferredCadence selects when the chord before it
\* is already a ii in the sense alreadyTwo
ApproachChord(alreadyTwo) ==
  LET preferredCadence == StyleConfig(style).preferredCadence IN
  CASE preferredCadence \in {"plagal", "blues"} -> MainChord(3)
    [] preferredCadence = "phrygian" -> NeapolitanChord
    [] preferredCadence = "ii-V-I" -> IF alreadyTwo THEN MainChord(4) ELSE MainChord(1)
    [] OTHER -> MainChord(4)

\* a and b are the same chord (resolution hints aside)
SameChordAs(a, b) ==
  [a EXCEPT !.expectsResolution = Undefined] = [b EXCEPT !.expectsResolution = Undefined]

\* an algorithmic progression of three or more chords on a 7-note scale was returned
AlgorithmicOnSevenNotes ==
  pc = "done" /\ strategy = "algorithmic" /\ length >= 3 /\ Len(scale.notes) = 7

Penultimate == heap[result[length - 1]]

BeforePenultimate == heap[result[length - 2]]

\* C19 (as stated): in every algorithmic progression of length >= 3 on a 7-note scale
\* the penultimate chord is the approach chord of the style's preferredCadence: IV for
\* plagal and blues, bII for phrygian, ii for ii-V-I unless the chord before it is the
\* diatonic ii (then V), and V for every other setting.
C19_PenultimateIsApproachChord ==
  AlgorithmicOnSevenNotes =>
    SameChordAs(Penultimate,
                ApproachChord(BeforePenultimate.type = "triad"
                              /\ BeforePenultimate.scaleDegree = 2))

\* C19 (amended): the penultimate chord is the resolution target of the chord before it
\* when that chord is a secondary dominant or secondary diminished chord; otherwise it
\* is the approach chord of the style's preferredCadence, where ii-V-I gives V after
\* any chord whose scaleDegree is 2 (the diatonic ii, the borrowed ii{deg}, the
\* Neapolitan bII) and ii after every other chord.
C19_PenultimateIsApproachUnlessResolving ==
  AlgorithmicOnSevenNotes =>
    IF NeedsResolution(BeforePenultimate)
    THEN IsDiatonicOn(Penultimate, BeforePenultimate.resolvesTo)
    ELSE SameChordAs(Penultimate, ApproachChord(BeforePenultimate.scaleDegree = 2))

\* a progression in a ii-V-I style whose penultimate chord is V after the borrowed ii{deg}
C19_Witness ==
  /\ AlgorithmicOnSevenNotes
  /\ StyleConfig(style).preferredCadence = "ii-V-I"
  /\ BeforePenultimate.type = "modal-interchange"
  /\ BeforePenultimate.scaleDegree = 2
  /\ SameChordAs(Penultimate, MainChord(4))

-----------------------------------------------------------------------------
(* C20: the string tokens of the template catalog *)

RomanDegrees == <<{"I", "i"}, {"II", "ii"}, {"III", "iii"}, {"IV", "iv"},
                  {"V", "v"}, {"VI", "vi"}, {"VII", "vii"}>>

\* the tokens of the form V/<deg> and vii{deg}/<deg>, and the <deg> they name
IsDominantToken(token) == ~IsNumber(token) /\ StartsWith(Chars[token], <<"V", "/">>)

IsDiminishedToken(token) ==
  ~IsNumber(token) /\ StartsWith(Chars[token], <<"v", "i", "i", "{deg}", "/">>)

TargetOf(token) ==
  IF IsDominantToken(token) THEN Substring(Chars[token], 2) ELSE Substring(Chars[token], 5)

\* the chord resolves to the note of the degree the characters name
ResolvesToDegree(chord, degreeChars, s) ==
  \E d \in 1..7 : /\ \E name \in RomanDegrees[d] : Chars[name] = degreeChars
                  /\ chord.resolvesTo = s.notes[d]

ModalTokens == {"bIII", "bVI", "iv", "bVII", "ii{deg}"}

\* what the token resolves to, as the sentence of the specification has it
ResolvedAsSpecified(token, chord, s) ==
  CASE IsDominantToken(token) ->
         /\ chord.layer = "secondary"
         /\ chord.type = "secondary-dominant"
         /\ ResolvesToDegree(chord, TargetOf(token), s)
    [] IsDiminishedToken(token) ->
         /\ chord.layer = "secondary-dim"
         /\ chord.type = "secondary-diminished"
         /\ ResolvesToDegree(chord, TargetOf(token), s)
    [] token \in ModalTokens ->
         /\ chord.layer = "modal"
         /\ chord.type = "modal-interchange"
         /\ chord.degree = token
    [] token = "bII" ->
         /\ chord.layer = "neapolitan"
         /\ chord.type = "neapolitan"
    [] OTHER -> chord = WithLayer(harmonizeTriads(s)[1], "main")

TemplateResolved ==
  op = "templateToChords" /\ ~ret.threw /\ Len(args[3].notes) = 7

\* C20: against the layers of a 7-note scale every catalog template resolves
\* token by token: a numeric token k to mainChords[k], V/<deg> to the secondary
\* dominant resolving to the note of degree <deg>, vii{deg}/<deg> to the
\* secondary diminished chord resolving to <deg>, bIII, bVI, iv, bVII and
\* ii{deg} to the modal-interchange chord of that degree label, bII to the
\* Neapolitan chord, and only a token of none of these forms to the tonic
C20_CatalogTokensResolve ==
  TemplateResolved =>
    /\ Len(ret.value) = Len(args[2])
    /\ \A k \in 1..Len(args[2]) :
         IF IsNumber(args[2][k])
         THEN ret.value[k] = WithLayer(harmonizeTriads(args[3])[NumberOf(args[2][k]) + 1], "main")
         ELSE ResolvedAsSpecified(args[2][k], ret.value[k], args[3])

-----------------------------------------------------------------------------
(* C21: the hints of the resolution-consistency pass *)

\* position k of the returned progression is followed by its resolution target
FollowedByTarget(k) ==
  k < Len(result) /\ heap[result[k + 1]].root = heap[result[k]].resolvesTo

HasHint(chord) == chord.expectsResolution # Undefined

\* C21: after ensureChromaticResolution a secondary-dominant or
\* secondary-diminished chord at position i carries an expectsResolution hint
\* if and only if the chord at position i + 1 is not its resolution target
\* (another root, or no next chord); the pass returns the same chords in the
\* same order
C21_HintIffResolutionMissed ==
  pc = "done" =>
    /\ result = progression
    /\ \A k \in 1..Len(result) :
         NeedsResolution(heap[result[k]]) =>
           (HasHint(heap[result[k]]) <=> ~FollowedByTarget(k))

-----------------------------------------------------------------------------
(* C22: the functional-harmony table in the main-layer filter *)

\* the entry of the table a degree label belongs to: the label without its
\* quality marks (vii{deg} is vii); the empty set if the table has none
EntryOf(degree) ==
  IF degree \notin DOMAIN Chars THEN {}
  ELSE {r \in DOMAIN getFunctionalHarmonyRules :
          Chars[r] = KeepOnly(Chars[degree], {"I", "V", "i", "v", "b"})}

\* the table lists the degree of current among the degrees next may follow
MayFollow(next, current) ==
  \E n \in EntryOf(next.degree), c \in EntryOf(current.degree) :
    \E k \in 1..Len(getFunctionalHarmonyRules[n]) : getFunctionalHarmonyRules[n][k] = c

\* generateAlgorithmic is about to call selectNextChordFunctional (line 894)
AtRegularPosition ==
  /\ pc = "algoChord"
  /\ Len(progression) < Min(phrase * phraseLength + phraseLength, length)
  /\ Len(progression) \notin {length - 1, length - 2}
  /\ ~(Len(progression) - phrase * phraseLength = phraseLength - 1
       /\ phrase # CeilDiv(length, phraseLength) - 1)

CurrentChord == heap[progression[Len(progression)]]

\* C22: a main-layer candidate N is admitted after the current chord C without
\* the rule-breaking draw exactly when the table lists C's degree among the
\* degrees N may follow, for every current chord whose degree has an entry
C22_TableDecidesAdmission ==
  AtRegularPosition =>
    \A k \in 1..Len(layers.mainChords) :
      LET candidate == layers.mainChords[k] IN
      (/\ ~SameChord(candidate, CurrentChord)
       /\ EntryOf(CurrentChord.degree) # {}
       /\ EntryOf(candidate.degree) # {})
        => (KeptWithoutDraw(CurrentChord, candidate, "main")
              <=> MayFollow(candidate, CurrentChord))

-----------------------------------------------------------------------------
(* C23: no immediate repetition at a regular position *)

\* position i (0-based) of a progression of the algorithmic strategy was filled
\* by selectNextChordFunctional: no cadence position (lines 888-893)
IsRegularPosition(i) ==
  /\ i >= 1
  /\ i \notin {length - 1, length - 2}
  /\ ~(i % phraseLength = phraseLength - 1
       /\ i \div phraseLength # CeilDiv(length, phraseLength) - 1)

SamePitchAndQuality(a, b) ==
  PitchClass(a.root) = PitchClass(b.root) /\ a.quality = b.quality

\* C23: in a progression of the algorithmic strategy a chord chosen at a regular
\* position, not by a forced resolution, never has both the root pitch class and
\* the quality of the chord immediately before it, whichever its layer
C23_NoImmediateRepetition ==
  (pc = "done" /\ strategy = "algorithmic") =>
    \A k \in 2..Len(result) :
      (IsRegularPosition(k - 1) /\ ~NeedsResolution(heap[result[k - 1]]))
        => ~SamePitchAndQuality(heap[result[k]], heap[result[k - 1]])

-----------------------------------------------------------------------------
(* C24: the score of a chord transition *)

\* the chords selectNextChordFunctional can score after the current chord
ScoredCandidates ==
  UNION {{availableChords(layer, layers)[k] : k \in 1..Len(availableChords(layer, layers))} :
           layer \in LayerDraws(Weights(complexity))}

\* the distance between two pitch classes, in either direction
PitchDistance(a, b) ==
  Min((PitchClass(b) - PitchClass(a)) % 12, (PitchClass(a) - PitchClass(b)) % 12)

BassMotionTerm(from, to) ==
  CASE PitchDistance(from.root, to.root) = 5 -> 15
    [] PitchDistance(from.root, to.root) \in {1, 2} -> 10
    [] PitchDistance(from.root, to.root) = 0 -> 0 - 20
    [] OTHER -> 0

\* the bonus the style table lists for the degree of the chord, whatever its case
DegreeBonus(to, st) ==
  LET listed == IF st \in DOMAIN styleScores /\ to.degree \in DOMAIN Chars
                THEN {d \in DOMAIN styleScores[st] :
                        ToUpperCase(Chars[d]) = DegreeKey(to.degree, {"I", "V", "X"})}
                ELSE {} IN
  IF listed = {} THEN 0 ELSE styleScores[st][CHOOSE d \in listed : TRUE]

CommonPitchClasses(a, b) ==
  Cardinality({PitchClass(a.notes[k]) : k \in 1..Len(a.notes)}
                \cap {PitchClass(b.notes[k]) : k \in 1..Len(b.notes)})

\* C24: scoreChordTransition(from, to, style) is 10 times the number of common
\* tones, plus a bass-motion term of the pitch-class distance of the roots in
\* either direction (+15 fourth or fifth, +10 half or whole step up or down,
\* -20 unchanged root), plus the style's bonus for the degree of the target, for
\* every degree the style table lists
C24_ScoreOfTransition ==
  AtRegularPosition =>
    \A to \in ScoredCandidates :
      scoreChordTransition(CurrentChord, to, style)
        = 10 * CommonPitchClasses(CurrentChord, to) + BassMotionTerm(CurrentChord, to)
            + DegreeBonus(to, style)

-----------------------------------------------------------------------------
(* C25: the transitions analyzeProgression reports *)

QualityOfShared(n) ==
  IF n = 0 THEN "disjunct" ELSE IF n >= 2 THEN "very smooth" ELSE "smooth"

\* C25: for every pair of consecutive chords of a generated progression, in
\* sharp and flat keys and across layers, analyzeProgression reports as
\* commonTones the number of pitch classes the two chords share, whatever their
\* spelling, and the quality disjunct for none, very smooth for two or more,
\* smooth for exactly one
C25_TransitionsCountPitchClasses ==
  (op = "analyzeProgression" /\ ~ret.threw) =>
    \A k \in 2..Len(result) :
      LET shared == CommonPitchClasses(heap[result[k - 1]], heap[result[k]]) IN
      /\ ret.value.chords[k].transition.commonTones = shared
      /\ ret.value.chords[k].transition.quality = QualityOfShared(shared)

-----------------------------------------------------------------------------
(* C26: the final chord of the algorithmic strategy *)

AlgorithmicOnSixNotes ==
  pc = "done" /\ strategy = "algorithmic" /\ length >= 1 /\ Len(scale.notes) >= 6

\* C26: a progression of length >= 1 of the algorithmic strategy on a scale of
\* at least 6 notes ends on a main-layer diatonic chord, the tonic or the chord
\* on the sixth degree
C26_FinalChordIsTonicOrSixth ==
  AlgorithmicOnSixNotes =>
    /\ Len(result) = length
    /\ heap[result[length]] \in {MainChord(0), MainChord(5)}
    /\ heap[result[length]].layer = "main"
    /\ heap[result[length]].scaleDegree \in {1, 6}

\* a six-note scale, a chromatic chord on the way, and the ending on the sixth degree
C26_Witness ==
  /\ AlgorithmicOnSixNotes
  /\ Len(scale.notes) = 6
  /\ length = MaxLength
  /\ heap[result[length]] = MainChord(5)
  /\ heap[result[length]].scaleDegree = 6
  /\ \E k \in 1..(length - 1) : heap[result[k]].layer # "main"

-----------------------------------------------------------------------------
(* C27: the case of the Roman numerals *)

lowerNumerals == <<"i", "ii", "iii", "iv", "v", "vi", "vii">>

\* the numeral of a degree in upper or lower case; '' beyond the seventh degree
NumeralOf(degree, lower) ==
  IF degree \notin 1..7 THEN ""
  ELSE IF lower THEN lowerNumerals[degree] ELSE numerals[degree]

IsLowerNumeral(numeral) == \E d \in 1..7 : numeral = lowerNumerals[d]

\* harmonizeTriads or harmonizeSeventhChords returned the chords of a scale
Harmonized == op \in {"harmonizeTriads", "harmonizeSeventhChords"} /\ ~ret.threw

\* every returned chord has the numeral of its degree, in lower case exactly for
\* the qualities of the set
NumeralsLowerFor(qualities) ==
  \A k \in 1..Len(ret.value) :
    ret.value[k].degree = NumeralOf(k, ret.value[k].quality \in qualities)

\* the seventh chords of a major scale, against its triads
SeventhChordsOfMajorScale ==
  op = "harmonizeSeventhChords" /\ ~ret.threw /\ args[2] \in CatalogScales
    /\ args[2].type = "major"

\* C27 as stated: the numeral is lower case for minor, minor7, minorMajor7,
\* diminished, diminished7 and halfDiminished7 and upper case otherwise, so the
\* triad and the seventh chord on one degree of a major scale have the same case
C27_NumeralCaseAsStated ==
  /\ Harmonized =>
       NumeralsLowerFor({"minor", "minor7", "minorMajor7", "diminished", "diminished7",
                         "halfDiminished7"})
  /\ SeventhChordsOfMajorScale =>
       \A k \in 1..Len(ret.value) :
         IsLowerNumeral(ret.value[k].degree) = IsLowerNumeral(harmonizeTriads(args[2])[k].degree)

\* C27 amended: the numeral is lower case exactly for the qualities whose name
\* contains "minor" or "diminished" in lower case (minor, minor7, minorMajor7,
\* diminished, diminished7); halfDiminished7 stays upper case, so on a major
\* scale triad and seventh chord agree in case on degrees 1 to 6 and differ on
\* degree 7 (vii against VII)
C27_NumeralCaseBySubstring ==
  /\ Harmonized =>
       NumeralsLowerFor({"minor", "minor7", "minorMajor7", "diminished", "diminished7"})
  /\ SeventhChordsOfMajorScale =>
       /\ Len(ret.value) = 7
       /\ \A k \in 1..6 :
            IsLowerNumeral(ret.value[k].degree)
              = IsLowerNumeral(harmonizeTriads(args[2])[k].degree)
       /\ ret.value[7].degree = "VII"
       /\ harmonizeTriads(args[2])[7].degree = "vii"

\* the half-diminished seventh chord on the seventh degree of a major scale
C27_Witness ==
  /\ SeventhChordsOfMajorScale
  /\ ret.value[7].quality = "halfDiminished7"
  /\ ret.value[7].degree = "VII"
  /\ ret.value[2].quality = "minor7"
  /\ ret.value[2].degree = "ii"

-----------------------------------------------------------------------------
(* C28: the harmonic function of the diatonic chords *)

\* the function of the chord on a degree of a major scale, by its Roman numeral
FunctionOfDegree(scaleDegree) ==
  CASE scaleDegree = 1 -> "Tonic"
    [] scaleDegree \in {2, 4} -> "Subdominant"
    [] scaleDegree \in {5, 7} -> "Dominant"
    [] scaleDegree \in {3, 6} -> "Tonic/Predominant"

\* C28: analyzeProgression reports for the diatonic chords of a major scale the
\* function of their Roman numeral: I Tonic, ii and IV Subdominant, V and vii
\* Dominant, iii and vi Tonic/Predominant
C28_FunctionOfDiatonicChords ==
  (op = "analyzeProgression" /\ ~ret.threw /\ scale.type = "major") =>
    \A k \in 1..Len(result) :
      heap[result[k]].type = "triad"
        => ret.value.chords[k].function = FunctionOfDegree(heap[result[k]].scaleDegree)

-----------------------------------------------------------------------------
(* C29: the layer tag and the structural type of a chord *)

\* the layer tag of a structural type; Undefined for what is no chord type
LayerOfType(type) ==
  CASE type = "triad" -> "main"
    [] type = "secondary-dominant" -> "secondary"
    [] type = "modal-interchange" -> "modal"
    [] type = "neapolitan" -> "neapolitan"
    [] type = "secondary-diminished" -> "secondary-dim"
    [] OTHER -> Undefined

\* C29: every chord of a progression generateProgression returns carries the
\* layer tag of its structural type: main for diatonic triads, secondary for
\* secondary dominants, modal for modal-interchange chords, neapolitan for the
\* Neapolitan chord, secondary-dim for secondary diminished chords; a diatonic
\* chord of the fall-back to main chords is never tagged with a chromatic layer
C29_LayerAgreesWithType ==
  pc = "done" =>
    \A k \in 1..Len(result) : heap[result[k]].layer = LayerOfType(heap[result[k]].type)

-----------------------------------------------------------------------------
(* C30: complete chord records *)

IsCompleteChord(chord) ==
  /\ ~Falsy(chord.root)
  /\ chord.notes # << >>
  /\ ~Falsy(chord.quality)
  /\ chord.scaleDegree >= 1

\* C30: for every catalog scale, the 5-note and 6-note scales included, every
\* element of a progression generateProgression returns is a complete chord
\* record with a root, a non-empty note list, a quality and a scale degree
C30_EveryChordIsComplete ==
  pc = "done" => \A k \in 1..Len(result) : IsCompleteChord(heap[result[k]])

====
